---------------------------- MODULE Spec2Model ----------------------------
(***************************************************************************)
(* A model of the rigid-body part of the PlayRho / Box2D physics engine:   *)
(* the current engine's Body value class (src/PlayRho/Dynamics/Body.cpp),  *)
(* the legacy engine's Body and its world                                  *)
(* (src/Box2D/Box2D/Dynamics/Body.cpp) and the identifier-indexed body     *)
(* table declared in src/PlayRho/Dynamics/WorldImplBody.hpp.               *)
(*                                                                         *)
(* Numbers.  Lengths are fixed-point integers counted in 1/Scale metre, so *)
(* that the division "center / mass" of ResetMassData is exact.  Angles    *)
(* are counted in quarter turns, so that rotating a vector is exact.       *)
(* Inverse masses and inverse inertias are kept as fractions <<num, den>>. *)
(* A value that the legacy code reads as a floating-point number and       *)
(* compares with ">=" is an integer or one of NaN, PosInf, NegInf.         *)
(***************************************************************************)
EXTENDS Integers, Sequences, FiniteSets, TLC

VARIABLES
    body,       \* single-body scenario: the one Body object under test
    last,       \* the call made last: its name, arguments and result
    bodies,     \* adjacency scenario: the bodies, by identity
    joints,     \* adjacency scenario: the joints alive, by identity
    legacy,     \* legacy scenario: one legacy Body and its World
    world,      \* identifier scenario: the world's body table
    chain       \* chain scenario: the chain shape under test

bodyVars == <<body>>
adjVars  == <<bodies, joints>>
legacyVars == <<legacy>>
worldVars == <<world>>
chainVars == <<chain>>
vars     == <<body, last, bodies, joints, legacy, world, chain>>

-----------------------------------------------------------------------------
(* Bounds of the model. *)

\* under-active times range over 0..MaxTime
MaxTime == 1
\* angular accelerations range over -MaxAcc..MaxAcc
MaxAcc == 1
\* the body of the single-body scenario gets at most MaxAttached fixtures
MaxAttached == 1
\* a body of the mass scenario gets at most MaxFixtures fixtures
MaxFixtures == 2
\* the adjacency scenario holds at most MaxJoints joints at a time
MaxJoints == 2
\* The most bodies the world's body table holds.
MaxBodies == 2
\* The most fixtures the legacy body's fixture list holds.
MaxLegacyFixtures == 1
MaxContacts == 2

-----------------------------------------------------------------------------
(* Vectors and fractions. *)

Vec2_zero == <<0, 0>>

VAdd(a, b) == <<a[1] + b[1], a[2] + b[2]>>

VSub(a, b) == <<a[1] - b[1], a[2] - b[2]>>

VMul(a, k) == <<a[1] * k, a[2] * k>>

Abs(x) == IF x < 0 THEN -x ELSE x

RECURSIVE GCD(_, _)
GCD(a, b) == IF b = 0 THEN a ELSE GCD(b, a % b)

LCM(a, b) == (a * b) \div GCD(a, b)

RECURSIVE LCMUpTo(_)
LCMUpTo(n) == IF n <= 1 THEN 1 ELSE LCM(n, LCMUpTo(n - 1))

GetMagnitudeSquared(v) == v[1] * v[1] + v[2] * v[2]

GetRevPerpendicular(v) == <<-v[2], v[1]>>

\* The direction angle atan2(y, x) of a vector, represented by the vector
\* reduced to lowest terms: two vectors have the same atan2 exactly when they
\* reduce to the same direction.  atan2(0, 0) is 0, the angle of <<1, 0>>.
GetAngle(v) ==
    IF v = Vec2_zero THEN <<1, 0>>
    ELSE LET g == GCD(Abs(v[1]), Abs(v[2]))
         IN  <<v[1] \div g, v[2] \div g>>

signbit(x) == x < 0

\* Rotation of a vector by q quarter turns.
Rotate(v, q) ==
    CASE q % 4 = 0 -> v
      [] q % 4 = 1 -> <<-v[2], v[1]>>
      [] q % 4 = 2 -> <<-v[1], -v[2]>>
      [] OTHER     -> <<v[2], -v[1]>>

\* Transform(v, xf): rotate, then translate.
Transform(v, xf) == VAdd(Rotate(v, xf.q), xf.p)

FracZero == <<0, 1>>


-----------------------------------------------------------------------------
(* Shapes, fixtures and mass data. *)

\* The largest mass one fixture of the model contributes: the largest
\* density times the largest mass per unit density of the shapes below.
MaxFixtureMass == 1 * 2

\* Lengths are counted in 1/Scale metre; Scale is a multiple of every total
\* mass a body of the model can have.
Scale == LCMUpTo((MaxFixtures + 1) * MaxFixtureMass)

\* A disk of mass m per unit density whose squared radius is 2h, centred at
\* p (in metres): its rotational inertia about the body origin is
\* m * (r^2/2 + |p|^2).  h = 0 stands for a radius so small that r^2/2 is
\* lost when added to |p|^2.
Disk(m, h, p) ==
    [unitMass |-> m,
     center   |-> VMul(p, Scale),
     unitI    |-> m * (h + GetMagnitudeSquared(p)) * Scale * Scale]

Shapes == {Disk(1, 1, <<0, 0>>), Disk(1, 1, <<1, 0>>), Disk(2, 0, <<0, 1>>)}

Densities == {0, 1}

Fixtures == [density : Densities, shape : Shapes]

\* GetMassData(fixture): the shape's mass data at the fixture's density.
GetMassData(f) ==
    [mass   |-> f.density * f.shape.unitMass,
     center |-> f.shape.center,
     I      |-> f.density * f.shape.unitI]

\* The accumulation adding each fixture's center without weighting it by
\* the fixture's mass.
RECURSIVE ComputeMassDataFrom_UnweightedCenter(_, _)
ComputeMassDataFrom_UnweightedCenter(fs, acc) ==
    IF fs = <<>> THEN acc
    ELSE LET fixture == Head(fs)
             massData == GetMassData(fixture)
         IN  ComputeMassDataFrom_UnweightedCenter(Tail(fs),
                 IF fixture.density > 0
                 THEN [mass   |-> acc.mass + massData.mass,
                       center |-> VAdd(acc.center, massData.center),
                       I      |-> acc.I + massData.I]
                 ELSE acc)

RECURSIVE ComputeMassDataFrom(_, _)
ComputeMassDataFrom(fs, acc) ==
    IF fs = <<>> THEN acc
    ELSE LET fixture == Head(fs)
             massData == GetMassData(fixture)
         IN  ComputeMassDataFrom(Tail(fs),
                 IF fixture.density > 0
                 THEN [mass   |-> acc.mass + massData.mass,
                       center |-> VAdd(acc.center, VMul(massData.center, massData.mass)),
                       I      |-> acc.I + massData.I]
                 ELSE acc)

\* ComputeMassData(body): the sum over the fixtures of positive density.
ComputeMassData(b) ==
    ComputeMassDataFrom(b.m_fixtures, [mass |-> 0, center |-> Vec2_zero, I |-> 0])

-----------------------------------------------------------------------------
(* The current engine's Body. *)

BodyTypes == {"Static", "Kinematic", "Dynamic"}

e_impenetrableFlag  == "impenetrable"
e_fixedRotationFlag == "fixedRotation"
e_autoSleepFlag     == "autoSleep"
e_awakeFlag         == "awake"
e_enabledFlag       == "enabled"
e_velocityFlag      == "velocity"
e_accelerationFlag  == "acceleration"
e_massDataDirtyFlag == "massDataDirty"

\* Body::GetFlags(BodyType)
GetTypeFlags(type) ==
    CASE type = "Dynamic"   -> {e_velocityFlag, e_accelerationFlag}
      [] type = "Kinematic" -> {e_impenetrableFlag, e_velocityFlag}
      [] OTHER              -> {e_impenetrableFlag}

IsSpeedable(b)     == e_velocityFlag \in b.m_flags
IsAccelerable(b)   == e_accelerationFlag \in b.m_flags
IsImpenetrable(b)  == e_impenetrableFlag \in b.m_flags
IsFixedRotation(b) == e_fixedRotationFlag \in b.m_flags
IsSleepingAllowed(b) == e_autoSleepFlag \in b.m_flags
IsAwake(b)         == e_awakeFlag \in b.m_flags
IsEnabled(b)       == e_enabledFlag \in b.m_flags
IsMassDataDirty(b) == e_massDataDirtyFlag \in b.m_flags

\* GetFlags without the rule that a velocity-capable body whose
\* configuration disallows sleep starts awake.
GetFlags_NoForcedAwake(bd) ==
    LET f0 == GetTypeFlags(bd.type)
        f1 == IF bd.bullet THEN f0 \cup {e_impenetrableFlag} ELSE f0
        f2 == IF bd.fixedRotation THEN f1 \cup {e_fixedRotationFlag} ELSE f1
        f3 == IF bd.allowSleep THEN f2 \cup {e_autoSleepFlag} ELSE f2
        f4 == IF bd.awake /\ e_velocityFlag \in f3 THEN f3 \cup {e_awakeFlag} ELSE f3
    IN  IF bd.enabled THEN f4 \cup {e_enabledFlag} ELSE f4

\* GetFlags setting the awake flag as configured, whatever the body type.
GetFlags_AwakeAsConfigured(bd) ==
    LET f0 == GetTypeFlags(bd.type)
        f1 == IF bd.bullet THEN f0 \cup {e_impenetrableFlag} ELSE f0
        f2 == IF bd.fixedRotation THEN f1 \cup {e_fixedRotationFlag} ELSE f1
        f3 == IF bd.allowSleep THEN f2 \cup {e_autoSleepFlag} ELSE f2
        f4 == IF bd.awake \/ ~bd.allowSleep THEN f3 \cup {e_awakeFlag} ELSE f3
    IN  IF bd.enabled THEN f4 \cup {e_enabledFlag} ELSE f4

\* Body::GetFlags(const BodyConf&)
GetFlags(bd) ==
    LET f0 == GetTypeFlags(bd.type)
        f1 == IF bd.bullet THEN f0 \cup {e_impenetrableFlag} ELSE f0
        f2 == IF bd.fixedRotation THEN f1 \cup {e_fixedRotationFlag} ELSE f1
        f3 == IF bd.allowSleep THEN f2 \cup {e_autoSleepFlag} ELSE f2
        f4 == IF bd.awake
              THEN IF e_velocityFlag \in f3 THEN f3 \cup {e_awakeFlag} ELSE f3
              ELSE IF ~bd.allowSleep /\ e_velocityFlag \in f3
                   THEN f3 \cup {e_awakeFlag} ELSE f3
        f5 == IF bd.enabled THEN f4 \cup {e_enabledFlag} ELSE f4
    IN  f5

SetAwakeFlag(b) == [b EXCEPT !.m_flags = @ \cup {e_awakeFlag}]

ResetUnderActiveTime(b) == [b EXCEPT !.m_underActiveTime = 0]

\* Body::SetUnderActiveTime: only an acceleration-capable body keeps a
\* non-zero under-active time.
SetUnderActiveTime(b, value) ==
    IF value = 0 \/ IsAccelerable(b)
    THEN [b EXCEPT !.m_underActiveTime = value]
    ELSE b

UnsetMassDataDirty(b) == [b EXCEPT !.m_flags = @ \ {e_massDataDirtyFlag}]

SetMassDataDirty(b) == [b EXCEPT !.m_flags = @ \cup {e_massDataDirtyFlag}]

\* Sweep{Position, localCenter}: both ends of the sweep at the position.
Sweep(linear, angular, localCenter) ==
    [pos0 |-> [linear |-> linear, angular |-> angular],
     pos1 |-> [linear |-> linear, angular |-> angular],
     localCenter |-> localCenter]

GetLocation(b) == b.m_xf.p

GetBodyAngle(b) == b.m_sweep.pos1.angular

GetWorldCenter(b) == b.m_sweep.pos1.linear

IsZeroVelocity(v) == v.linear = Vec2_zero /\ v.angular = 0

\* SetVelocity without the check that the body is velocity-capable.
SetVelocity_NoCheck(b, velocity) ==
    IF velocity.linear # Vec2_zero \/ velocity.angular # 0
    THEN [ResetUnderActiveTime(SetAwakeFlag(b)) EXCEPT !.m_velocity = velocity]
    ELSE [b EXCEPT !.m_velocity = velocity]

\* SetVelocity waking the body without resetting its under-active time.
SetVelocity_NoReset(b, velocity) ==
    IF velocity.linear # Vec2_zero \/ velocity.angular # 0
    THEN IF ~IsSpeedable(b)
         THEN b
         ELSE [SetAwakeFlag(b) EXCEPT !.m_velocity = velocity]
    ELSE [b EXCEPT !.m_velocity = velocity]

\* Body::SetVelocity
SetVelocity(b, velocity) ==
    IF velocity.linear # Vec2_zero \/ velocity.angular # 0
    THEN IF ~IsSpeedable(b)
         THEN b
         ELSE [ResetUnderActiveTime(SetAwakeFlag(b)) EXCEPT !.m_velocity = velocity]
    ELSE [b EXCEPT !.m_velocity = velocity]

\* The condition under which Body::SetAcceleration wakes the body.
AccelerationWakes(b, linear, angular) ==
    \/ b.m_angularAcceleration < angular
    \/ GetMagnitudeSquared(b.m_linearAcceleration) < GetMagnitudeSquared(linear)
    \/ GetAngle(b.m_linearAcceleration) # GetAngle(linear)
    \/ signbit(b.m_angularAcceleration) # signbit(angular)

\* SetAcceleration without the check that the body is acceleration-capable.
SetAcceleration_NoCheck(b, linear, angular) ==
    IF b.m_linearAcceleration = linear /\ b.m_angularAcceleration = angular
    THEN b
    ELSE [b EXCEPT !.m_linearAcceleration = linear,
                   !.m_angularAcceleration = angular]

\* SetAcceleration waking the body on every change of an acceleration-capable
\* body's acceleration.
SetAcceleration_AlwaysWakes(b, linear, angular) ==
    IF b.m_linearAcceleration = linear /\ b.m_angularAcceleration = angular
    THEN b
    ELSE IF ~IsAccelerable(b)
         THEN IF linear # Vec2_zero \/ angular # 0
              THEN b
              ELSE [b EXCEPT !.m_linearAcceleration = linear,
                             !.m_angularAcceleration = angular]
         ELSE [ResetUnderActiveTime(SetAwakeFlag(b))
                   EXCEPT !.m_linearAcceleration = linear,
                          !.m_angularAcceleration = angular]

\* Body::SetAcceleration
SetAcceleration(b, linear, angular) ==
    IF b.m_linearAcceleration = linear /\ b.m_angularAcceleration = angular
    THEN b
    ELSE IF ~IsAccelerable(b)
         THEN IF linear # Vec2_zero \/ angular # 0
              THEN b
              ELSE [b EXCEPT !.m_linearAcceleration = linear,
                             !.m_angularAcceleration = angular]
         ELSE LET w == IF AccelerationWakes(b, linear, angular)
                       THEN ResetUnderActiveTime(SetAwakeFlag(b))
                       ELSE b
              IN  [w EXCEPT !.m_linearAcceleration = linear,
                            !.m_angularAcceleration = angular]

\* Body::ResetMassData without the default mass of a body whose fixtures
\* have no mass.
ResetMassData_NoDefaultMass(b) ==
    IF ~IsAccelerable(b)
    THEN UnsetMassDataDirty(
             [b EXCEPT !.m_invMass = FracZero,
                       !.m_invRotI = FracZero,
                       !.m_sweep = Sweep(GetLocation(b), GetBodyAngle(b), Vec2_zero)])
    ELSE LET massData == ComputeMassData(b)
         IN  UnsetMassDataDirty([b EXCEPT !.m_invMass = <<1, massData.mass>>])

\* Body::ResetMassData
ResetMassData(b) ==
    IF ~IsAccelerable(b)
    THEN UnsetMassDataDirty(
             [b EXCEPT !.m_invMass = FracZero,
                       !.m_invRotI = FracZero,
                       !.m_sweep = Sweep(GetLocation(b), GetBodyAngle(b), Vec2_zero)])
    ELSE LET massData == ComputeMassData(b)
             mass == IF massData.mass > 0 THEN massData.mass ELSE 1
             localCenter == <<massData.center[1] \div mass, massData.center[2] \div mass>>
             lengthSquared == GetMagnitudeSquared(localCenter)
             I == massData.I - mass * lengthSquared
             invRotI == IF massData.I > 0 /\ ~IsFixedRotation(b)
                        THEN <<1, I>> ELSE FracZero
             oldCenter == GetWorldCenter(b)
             newCenter == Transform(localCenter, b.m_xf)
             deltaCenter == VSub(newCenter, oldCenter)
         IN  UnsetMassDataDirty(
                 [b EXCEPT !.m_invMass = <<1, mass>>,
                           !.m_invRotI = invRotI,
                           !.m_sweep = Sweep(newCenter, GetBodyAngle(b), localCenter),
                           !.m_velocity.linear =
                               VAdd(@, VMul(GetRevPerpendicular(deltaCenter),
                                            b.m_velocity.angular))])

\* Body::SetFixedRotation recomputing the mass data before it stops the
\* rotation.
SetFixedRotation_ResetsFirst(b, flag) ==
    IF IsFixedRotation(b) = flag
    THEN b
    ELSE LET f == IF flag THEN b.m_flags \cup {e_fixedRotationFlag}
                          ELSE b.m_flags \ {e_fixedRotationFlag}
             r == ResetMassData([b EXCEPT !.m_flags = f])
         IN  [r EXCEPT !.m_velocity.angular = 0]

\* Body::SetFixedRotation
SetFixedRotation(b, flag) ==
    IF IsFixedRotation(b) = flag
    THEN b
    ELSE LET f == IF flag THEN b.m_flags \cup {e_fixedRotationFlag}
                          ELSE b.m_flags \ {e_fixedRotationFlag}
         IN  ResetMassData([b EXCEPT !.m_flags = f, !.m_velocity.angular = 0])

\* Body::Body(const BodyConf&)
NewBody(bd) ==
    LET b0 == [m_xf    |-> [p |-> bd.pose.location, q |-> bd.pose.angle],
               m_sweep |-> Sweep(bd.pose.location, bd.pose.angle, Vec2_zero),
               m_flags |-> GetFlags(bd),
               m_invMass |-> IF bd.type = "Dynamic" THEN <<1, 1>> ELSE FracZero,
               m_invRotI |-> FracZero,
               m_velocity |-> [linear |-> Vec2_zero, angular |-> 0],
               m_linearAcceleration  |-> Vec2_zero,
               m_angularAcceleration |-> 0,
               m_underActiveTime |-> 0,
               m_fixtures |-> <<>>,
               m_joints   |-> <<>>,
               m_contacts |-> <<>>]
        b1 == SetVelocity(b0, [linear |-> bd.linearVelocity, angular |-> bd.angularVelocity])
        b2 == SetAcceleration(b1, bd.linearAcceleration, bd.angularAcceleration)
    IN  SetUnderActiveTime(b2, bd.underActiveTime)

\* Attaching a fixture to a body: it is linked into the body's fixture
\* collection and the mass data is marked dirty.
Attach(b, f) == SetMassDataDirty([b EXCEPT !.m_fixtures = Append(@, f)])


-----------------------------------------------------------------------------
(* The single-body scenario: one Body is constructed from a BodyConf and   *)
(* its mutators are called in any order.                                   *)

LinearVelocities == {Vec2_zero, <<Scale, 0>>}

AngularVelocities == {0, 1}

Velocities == [linear : LinearVelocities, angular : AngularVelocities]

LinearAccelerations == {Vec2_zero, <<1, 0>>, <<2, 0>>, <<0, 1>>}

AngularAccelerations == (-MaxAcc) .. MaxAcc

Times == 0 .. MaxTime

\* The location and angle of a configuration.
Poses == {[location |-> Vec2_zero, angle |-> 0], [location |-> <<Scale, 0>>, angle |-> 1]}

BodyConfs ==
    [type : BodyTypes,
     pose : Poses,
     linearVelocity : LinearVelocities,
     angularVelocity : AngularVelocities,
     linearAcceleration : {Vec2_zero, <<1, 0>>},
     angularAcceleration : {0, -1},
     bullet : BOOLEAN,
     fixedRotation : BOOLEAN,
     allowSleep : BOOLEAN,
     awake : BOOLEAN,
     enabled : BOOLEAN,
     underActiveTime : Times]

NoBody == [m_flags |-> {}]

Call(op, arg, res) == [op |-> op, arg |-> arg, res |-> res]

BodyIdle == body = NoBody

AdjIdle == bodies = <<>> /\ joints = <<>>

NoCall == Call("none", 0, 0)

NoLegacy == [m_flags |-> {}]

LegacyIdle == legacy = NoLegacy

NoWorld == [m_bodyBuffer |-> <<>>, m_free |-> <<>>, issued |-> {}]

WorldIdle == world = NoWorld

\* A chain shape with nothing allocated: b2ChainShape as constructed and as
\* Clear leaves it.
NoChain ==
    [m_vertices |-> <<>>, m_count |-> 0,
     m_prevVertex |-> <<0, 0>>, m_nextVertex |-> <<0, 0>>,
     m_hasPrevVertex |-> FALSE, m_hasNextVertex |-> FALSE]

ChainIdle == chain = NoChain

InitBody ==
    /\ \E bd \in BodyConfs :
          /\ body = NewBody(bd)
          /\ last = Call("Body", bd, 0)
    /\ AdjIdle
    /\ LegacyIdle
    /\ WorldIdle
    /\ ChainIdle

DoSetVelocity ==
    \E v \in Velocities :
        /\ body' = SetVelocity(body, v)
        /\ last' = Call("SetVelocity", v, 0)
        /\ UNCHANGED <<adjVars, legacyVars, worldVars, chainVars>>

DoSetAcceleration ==
    \E linear \in LinearAccelerations, angular \in AngularAccelerations :
        /\ body' = SetAcceleration(body, linear, angular)
        /\ last' = Call("SetAcceleration", [linear |-> linear, angular |-> angular], 0)
        /\ UNCHANGED <<adjVars, legacyVars, worldVars, chainVars>>

DoSetFixedRotation ==
    \E flag \in BOOLEAN :
        /\ body' = SetFixedRotation(body, flag)
        /\ last' = Call("SetFixedRotation", flag, 0)
        /\ UNCHANGED <<adjVars, legacyVars, worldVars, chainVars>>

DoResetMassData ==
    /\ body' = ResetMassData(body)
    /\ last' = Call("ResetMassData", 0, 0)
    /\ UNCHANGED <<adjVars, legacyVars, worldVars, chainVars>>

\* The fixtures the world attaches to the body of this scenario.
AttachedFixtures ==
    {[density |-> 1, shape |-> Disk(1, 1, <<1, 0>>)],
     [density |-> 0, shape |-> Disk(1, 1, <<0, 0>>)]}

DoAttach ==
    \E f \in AttachedFixtures :
        /\ Len(body.m_fixtures) < MaxAttached
        /\ body' = Attach(body, f)
        /\ last' = Call("Attach", f, 0)
        /\ UNCHANGED <<adjVars, legacyVars, worldVars, chainVars>>

NextBody ==
    \/ DoSetVelocity
    \/ DoSetAcceleration
    \/ DoSetFixedRotation
    \/ DoResetMassData
    \/ DoAttach

SpecBody == InitBody /\ [][NextBody]_vars


-----------------------------------------------------------------------------
(* Properties of the single-body scenario. *)

\* C1: a body that is not velocity-capable is not awake and has zero linear
\* and zero angular velocity, in every state reached from the constructor by
\* SetVelocity, SetAcceleration, SetFixedRotation and ResetMassData.
C1_StaticNotAwakeNoVelocity ==
    ~IsSpeedable(body) =>
        /\ ~IsAwake(body)
        /\ body.m_velocity.linear = Vec2_zero
        /\ body.m_velocity.angular = 0

\* A body that is not velocity-capable has just been given a non-zero velocity.
C1_Witness ==
    /\ last.op = "SetVelocity"
    /\ ~IsZeroVelocity(last.arg)
    /\ ~IsSpeedable(body)

\* C2: a body that is not acceleration-capable has zero linear acceleration,
\* zero angular acceleration and zero under-active time.
C2_NotAccelerableNoAcceleration ==
    ~IsAccelerable(body) =>
        /\ body.m_linearAcceleration = Vec2_zero
        /\ body.m_angularAcceleration = 0
        /\ body.m_underActiveTime = 0

\* A body that is not acceleration-capable has just been given a non-zero
\* acceleration.
C2_Witness ==
    /\ last.op = "SetAcceleration"
    /\ (last.arg.linear # Vec2_zero \/ last.arg.angular # 0)
    /\ ~IsAccelerable(body)

C7_SetVelocity ==
    [][last'.op = "SetVelocity" =>
          LET v == last'.arg
          IN  IF ~IsZeroVelocity(v) /\ ~IsSpeedable(body)
              THEN body' = body
              ELSE /\ body'.m_velocity = v
                   /\ ~IsZeroVelocity(v) =>
                          (IsAwake(body') /\ body'.m_underActiveTime = 0)
                   /\ IsZeroVelocity(v) =>
                          /\ IsAwake(body') = IsAwake(body)
                          /\ body'.m_underActiveTime = body.m_underActiveTime]_vars

\* A velocity-capable body has just been given a non-zero velocity.
C7_Witness ==
    /\ last.op = "SetVelocity"
    /\ ~IsZeroVelocity(last.arg)
    /\ IsSpeedable(body)
    /\ IsAwake(body)
    /\ body.m_velocity = last.arg

\* Two vectors have the same direction angle: they are parallel and point the
\* same way, the zero vector counting as pointing along +x.
SameDirection(u, v) ==
    LET a == IF u = Vec2_zero THEN <<1, 0>> ELSE u
        c == IF v = Vec2_zero THEN <<1, 0>> ELSE v
    IN  /\ a[1] * c[2] - a[2] * c[1] = 0
        /\ a[1] * c[1] + a[2] * c[2] > 0

\* C8: SetAcceleration changes nothing when the values equal the stored ones
\* or when a value is non-zero and the body is not acceleration-capable; in
\* every other case it stores the values, and it wakes the body and resets
\* the under-active time exactly when the angular acceleration increases, the
\* squared linear magnitude increases, the linear direction differs or the
\* sign of the angular acceleration differs.
C8_SetAcceleration ==
    [][last'.op = "SetAcceleration" =>
          LET lin == last'.arg.linear
              ang == last'.arg.angular
              oldLin == body.m_linearAcceleration
              oldAng == body.m_angularAcceleration
              onset ==
                  \/ ang > oldAng
                  \/ lin[1] * lin[1] + lin[2] * lin[2]
                        > oldLin[1] * oldLin[1] + oldLin[2] * oldLin[2]
                  \/ ~SameDirection(oldLin, lin)
                  \/ (ang < 0) # (oldAng < 0)
          IN  IF lin = oldLin /\ ang = oldAng
              THEN body' = body
              ELSE IF ~IsAccelerable(body) /\ (lin # Vec2_zero \/ ang # 0)
              THEN body' = body
              ELSE /\ body'.m_linearAcceleration = lin
                   /\ body'.m_angularAcceleration = ang
                   /\ IF onset
                      THEN IsAwake(body') /\ body'.m_underActiveTime = 0
                      ELSE /\ IsAwake(body') = IsAwake(body)
                           /\ body'.m_underActiveTime = body.m_underActiveTime]_vars

\* A sleeping acceleration-capable body holds an acceleration that was just
\* stored: the call lowered the acceleration without waking the body.
C8_Witness ==
    /\ last.op = "SetAcceleration"
    /\ IsAccelerable(body)
    /\ ~IsAwake(body)
    /\ body.m_linearAcceleration = last.arg.linear
    /\ body.m_angularAcceleration = last.arg.angular

\* C10 as stated: a newly constructed body is awake only if it is
\* velocity-capable and the configuration requested awake or disallows sleep.
C10_AwakeOnlyIfConfigured ==
    last.op = "Body" =>
        (IsAwake(body) =>
            /\ IsSpeedable(body)
            /\ (last.arg.awake \/ ~last.arg.allowSleep))

\* C10, amended: a newly constructed body is awake only if it is
\* velocity-capable and the configuration requested awake, or disallows
\* sleep, or gives a non-zero velocity, or gives a non-zero acceleration to
\* an acceleration-capable body.
C10_AwakeOnlyIfConfiguredOrMoving ==
    last.op = "Body" =>
        (IsAwake(body) =>
            /\ IsSpeedable(body)
            /\ \/ last.arg.awake
               \/ ~last.arg.allowSleep
               \/ last.arg.linearVelocity # Vec2_zero
               \/ last.arg.angularVelocity # 0
               \/ /\ IsAccelerable(body)
                  /\ \/ last.arg.linearAcceleration # Vec2_zero
                     \/ last.arg.angularAcceleration # 0)

\* A newly constructed body is awake although its configuration asked for a
\* sleeping body and allows sleep.
C10_Witness ==
    /\ last.op = "Body"
    /\ IsAwake(body)
    /\ ~last.arg.awake
    /\ last.arg.allowSleep


-----------------------------------------------------------------------------
(* The adjacency scenario: two bodies and the joints between them, each    *)
(* joint inserted into the joint list of the bodies it names.              *)

\* A joint's body may be absent.
NullBody == "null"

BodyIds == {"A", "B"}

JointIds == 1 .. MaxJoints

DefaultBodyConf(type) ==
    [type |-> type,
     pose |-> [location |-> Vec2_zero, angle |-> 0],
     linearVelocity |-> Vec2_zero,
     angularVelocity |-> 0,
     linearAcceleration |-> Vec2_zero,
     angularAcceleration |-> 0,
     bullet |-> FALSE,
     fixedRotation |-> FALSE,
     allowSleep |-> TRUE,
     awake |-> TRUE,
     enabled |-> TRUE,
     underActiveTime |-> 0]

\* Body::Insert(Joint*) recording the joint's second body as the other body.
Insert_OtherIsBodyB(b, self, joint, jid) ==
    [b EXCEPT !.m_joints = Append(@, <<joint.bodyB, jid>>)]

\* Body::Insert(Joint*), called on the body `self`.
Insert(b, self, joint, jid) ==
    LET bodyA == joint.bodyA
        bodyB == joint.bodyB
        other == IF self = bodyA THEN bodyB
                 ELSE IF self = bodyB THEN bodyA ELSE NullBody
    IN  [b EXCEPT !.m_joints = Append(@, <<other, jid>>)]

\* The index of the first entry of a joint list that holds the joint, or 0.
FindJoint(list, jid) ==
    IF \E i \in 1 .. Len(list) : list[i][2] = jid
    THEN CHOOSE i \in 1 .. Len(list) :
             /\ list[i][2] = jid
             /\ \A k \in 1 .. (i - 1) : list[k][2] # jid
    ELSE 0

RemoveAt(list, i) == SubSeq(list, 1, i - 1) \o SubSeq(list, i + 1, Len(list))

\* Body::Erase(const Joint*)
Erase(b, jid) ==
    LET it == FindJoint(b.m_joints, jid)
    IN  IF it # 0 THEN [b EXCEPT !.m_joints = RemoveAt(@, it)] ELSE b

\* ShouldCollide(const Body& lhs, const Body& rhs) of the current engine.
ShouldCollide(lhs, rhs) ==
    IF ~IsAccelerable(bodies[lhs]) /\ ~IsAccelerable(bodies[rhs])
    THEN FALSE
    ELSE LET list == bodies[lhs].m_joints
         IN  ~\E i \in 1 .. Len(list) :
                 /\ list[i][1] = rhs
                 /\ ~joints[list[i][2]].collideConnected

\* Body::ShouldCollide(const Body* other) of the legacy engine, whose joint
\* list holds the joints alone.
LegacyShouldCollide(self, other) ==
    IF ~IsAccelerable(bodies[self]) /\ ~IsAccelerable(bodies[other])
    THEN FALSE
    ELSE LET list == bodies[self].m_joints
         IN  ~\E i \in 1 .. Len(list) :
                 LET joint == joints[list[i][2]]
                 IN  /\ (joint.bodyA = other \/ joint.bodyB = other)
                     /\ ~joint.collideConnected

InitAdj ==
    /\ \E types \in [BodyIds -> BodyTypes] :
          bodies = [id \in BodyIds |-> NewBody(DefaultBodyConf(types[id]))]
    /\ joints = <<>>
    /\ last = NoCall
    /\ BodyIdle
    /\ LegacyIdle
    /\ WorldIdle
    /\ ChainIdle

\* The world creates a joint and inserts it into the bodies it names.
CreateJoint ==
    \E bodyA \in BodyIds \cup {NullBody}, bodyB \in BodyIds \cup {NullBody},
       collideConnected \in BOOLEAN :
        /\ Cardinality(DOMAIN joints) < MaxJoints
        /\ LET jid == CHOOSE j \in JointIds :
                          /\ j \notin DOMAIN joints
                          /\ \A k \in JointIds : k < j => k \in DOMAIN joints
               joint == [bodyA |-> bodyA, bodyB |-> bodyB,
                         collideConnected |-> collideConnected]
               b1 == IF bodyA # NullBody
                     THEN [bodies EXCEPT ![bodyA] = Insert(@, bodyA, joint, jid)]
                     ELSE bodies
               b2 == IF bodyB # NullBody
                     THEN [b1 EXCEPT ![bodyB] = Insert(@, bodyB, joint, jid)]
                     ELSE b1
           IN  /\ joints' = [j \in DOMAIN joints \cup {jid} |->
                                IF j = jid THEN joint ELSE joints[j]]
               /\ bodies' = b2
        /\ UNCHANGED <<body, last, legacyVars, worldVars, chainVars>>

\* The world destroys a joint, erasing it from the bodies it names.
DestroyJoint ==
    \E jid \in DOMAIN joints :
        LET joint == joints[jid]
            b1 == IF joint.bodyA # NullBody
                  THEN [bodies EXCEPT ![joint.bodyA] = Erase(@, jid)]
                  ELSE bodies
            b2 == IF joint.bodyB # NullBody
                  THEN [b1 EXCEPT ![joint.bodyB] = Erase(@, jid)]
                  ELSE b1
        IN  /\ bodies' = b2
            /\ joints' = [j \in DOMAIN joints \ {jid} |-> joints[j]]
            /\ UNCHANGED <<body, last, legacyVars, worldVars, chainVars>>

NextAdj ==
    \/ CreateJoint
    \/ DestroyJoint

SpecAdj == InitAdj /\ [][NextAdj]_vars

\* Some joint alive connects body a to body b and forbids their collision.
JointForbids(a, b) ==
    \E jid \in DOMAIN joints :
        /\ \/ joints[jid].bodyA = a /\ joints[jid].bodyB = b
           \/ joints[jid].bodyA = b /\ joints[jid].bodyB = a
        /\ ~joints[jid].collideConnected

\* C9: ShouldCollide(A, B) is false if neither body is acceleration-capable,
\* false if some joint connecting A and B has collide-connected = false, and
\* true in every other case; the legacy member function agrees for two
\* different bodies.
C9_ShouldCollide ==
    \A a \in BodyIds, b \in BodyIds :
        LET expected ==
                /\ (IsAccelerable(bodies[a]) \/ IsAccelerable(bodies[b]))
                /\ ~JointForbids(a, b)
        IN  /\ ShouldCollide(a, b) = expected
            /\ a # b => LegacyShouldCollide(a, b) = expected

\* Two joints connect A and B, one with collide-connected and one without,
\* a further state has only collide-connected joints between them.
C9_Witness ==
    /\ DOMAIN joints = {1, 2}
    /\ joints[1].bodyA = "B" /\ joints[1].bodyB = "A"
    /\ joints[1].collideConnected
    /\ joints[2].bodyA = "A" /\ joints[2].bodyB = "B"
    /\ ~joints[2].collideConnected
    /\ IsAccelerable(bodies["A"])
    /\ ~IsAccelerable(bodies["B"])
    /\ ~ShouldCollide("A", "B")
    /\ ~ShouldCollide("B", "A")


-----------------------------------------------------------------------------
(* The legacy engine: one Body inside its World.  The state is one record: *)
(* the m_ fields are the Body's members, the others are the World's: the   *)
(* lock, the new-fixtures flag, gravity, the vertex radius range, the      *)
(* fixture and contact objects of the block allocator (by address), the    *)
(* destruction listener, whether the process was aborted, and the trace of *)
(* what the running call did to other objects.                             *)

e_activeFlag == "active"

nullptr == 0

\* Floating-point values: finite numbers, the two infinities and NaN.
Fin(n) == [k |-> "fin", v |-> n]

NaN == [k |-> "nan", v |-> 0]

PosInfinity == [k |-> "inf", v |-> 1]

NegInfinity == [k |-> "inf", v |-> -1]

isnan(x) == x.k = "nan"

\* x >= y on floating-point values: false when either is NaN.
FGE(x, y) ==
    /\ ~isnan(x)
    /\ ~isnan(y)
    /\ IF x.k = "inf" THEN x.v = 1 \/ (y.k = "inf" /\ y.v = -1)
       ELSE IF y.k = "inf" THEN y.v = -1
       ELSE x.v >= y.v

FLE(x, y) == FGE(y, x)

FLT(x, y) == ~isnan(x) /\ ~isnan(y) /\ ~FGE(x, y)

FGT(x, y) == FLT(y, x)

Range(seq) == {seq[i] : i \in 1 .. Len(seq)}

IsActive(s) == e_activeFlag \in s.m_flags

\* Body::GetFlags(const BodyDef&) of the legacy engine.
LegacyGetFlags(bd) ==
    LET f1 == IF bd.bullet THEN {e_impenetrableFlag} ELSE {}
        f2 == IF bd.fixedRotation THEN f1 \cup {e_fixedRotationFlag} ELSE f1
        f3 == IF bd.allowSleep THEN f2 \cup {e_autoSleepFlag} ELSE f2
        f4 == IF bd.awake THEN f3 \cup {e_awakeFlag} ELSE f3
        f5 == IF bd.active THEN f4 \cup {e_activeFlag} ELSE f4
    IN  f5 \cup GetTypeFlags(bd.type)

\* Body::GetType: the type the capability flags stand for.
LegacyGetType(s) ==
    IF IsAccelerable(s) THEN "Dynamic"
    ELSE IF IsSpeedable(s) THEN "Kinematic"
    ELSE "Static"

\* Body::SetAwake
LegacySetAwake(s) == [s EXCEPT !.m_flags = @ \cup {e_awakeFlag}, !.m_sleepTime = 0]

Emit(s, event, object) == [s EXCEPT !.trace = Append(@, <<event, object>>)]

Remove(f, id) == [i \in DOMAIN f \ {id} |-> f[i]]

\* The block the allocator hands out: the lowest free address.
Allocate(objects) ==
    CHOOSE id \in 1 .. (Cardinality(DOMAIN objects) + 1) :
        /\ id \notin DOMAIN objects
        /\ \A other \in 1 .. (id - 1) : other \in DOMAIN objects

NoXf == [p |-> Vec2_zero, q |-> 0]

NoProxies == [count |-> 0, t1 |-> NoXf, t2 |-> NoXf]

\* Fixture::CreateProxies: one proxy per child of the shape, at the transform.
CreateProxies(fixture, xf) ==
    [fixture EXCEPT !.proxies =
        [count |-> fixture.shape.childCount, t1 |-> xf, t2 |-> xf]]

\* Fixture::DestroyProxies
DestroyProxies(s, id) ==
    Emit([s EXCEPT !.fixtures[id].proxies = NoProxies], "DestroyProxies", id)

\* Fixture::Synchronize: the proxies cover the sweep from t1 to t2.
Synchronize(fixture, t1, t2) ==
    IF fixture.proxies.count = 0 THEN fixture
    ELSE [fixture EXCEPT !.proxies.t1 = t1, !.proxies.t2 = t2]

\* Fixture::TouchProxies: the broad phase is told that the proxies moved.
TouchProxies(s, id) ==
    IF s.fixtures[id].proxies.count = 0 THEN s
    ELSE Emit(s, "TouchProxies", id)

\* for (auto&& fixture: GetFixtures()) fixture->TouchProxies(broadPhase)
RECURSIVE TouchAllProxies(_, _)
TouchAllProxies(s, list) ==
    IF list = <<>> THEN s
    ELSE TouchAllProxies(TouchProxies(s, Head(list)), Tail(list))

\* Delete(fixture, allocator)
DeleteFixture(s, id) == Emit([s EXCEPT !.fixtures = Remove(@, id)], "Delete", id)

\* ContactManager::Destroy: the contact leaves the world and the body's
\* contact list.
DestroyContact(s, c) ==
    Emit([s EXCEPT !.contacts = Remove(@, c),
                   !.m_contacts = SelectSeq(@, LAMBDA x : x # c)],
         "DestroyContact", c)

\* DestructionListener::SayGoodbye(fixture)
SayGoodbye(s, id) == Emit(s, "SayGoodbye", id)

\* ComputeMassData(body) over the fixture objects of the body's list.
LegacyComputeMassData(s) ==
    ComputeMassDataFrom([i \in 1 .. Len(s.m_fixtures) |-> s.fixtures[s.m_fixtures[i]]],
                        [mass |-> 0, center |-> Vec2_zero, I |-> 0])

\* Body::ResetMassData of the legacy engine.
LegacyResetMassData(s) ==
    IF ~IsAccelerable(s)
    THEN UnsetMassDataDirty(
             [s EXCEPT !.m_invMass = FracZero,
                       !.m_invI = FracZero,
                       !.m_sweep = Sweep(GetLocation(s), GetBodyAngle(s), Vec2_zero)])
    ELSE LET massData == LegacyComputeMassData(s)
             mass == IF massData.mass > 0 THEN massData.mass ELSE 1
             localCenter == <<massData.center[1] \div mass, massData.center[2] \div mass>>
             lengthSquared == GetMagnitudeSquared(localCenter)
             invI == IF massData.I > 0 /\ ~IsFixedRotation(s)
                     THEN <<1, massData.I - mass * lengthSquared>> ELSE FracZero
             oldCenter == GetWorldCenter(s)
             newCenter == Transform(localCenter, s.m_xf)
         IN  UnsetMassDataDirty(
                 [s EXCEPT !.m_invMass = <<1, mass>>,
                           !.m_invI = invI,
                           !.m_sweep = Sweep(newCenter, GetBodyAngle(s), localCenter),
                           !.m_velocity.linear =
                               VAdd(@, VMul(GetRevPerpendicular(VSub(newCenter, oldCenter)),
                                            s.m_velocity.angular))])


Abort(s) == [s EXCEPT !.aborted = TRUE]

\* IsValid(shape, world)
IsValidShape(shape, s) ==
    IF ~shape.present THEN FALSE
    ELSE LET vr == shape.vertexRadius
         IN  IF ~FGE(vr, s.minVertexRadius) THEN FALSE
             ELSE IF ~FLE(vr, s.maxVertexRadius) THEN FALSE
             ELSE TRUE

\* IsValid(const FixtureDef&) without the test of the friction.
IsValidDef_NoFrictionCheck(def) ==
    IF ~FGE(def.density, Fin(0)) THEN FALSE
    ELSE IF ~FLT(def.restitution, PosInfinity) THEN FALSE
    ELSE IF ~FGT(def.restitution, NegInfinity) THEN FALSE
    ELSE TRUE

\* IsValid(const FixtureDef&)
IsValidDef(def) ==
    IF ~FGE(def.density, Fin(0)) THEN FALSE
    ELSE IF ~FGE(def.friction, Fin(0)) THEN FALSE
    ELSE IF ~FLT(def.restitution, PosInfinity) THEN FALSE
    ELSE IF ~FGT(def.restitution, NegInfinity) THEN FALSE
    ELSE TRUE

\* Body::CreateFixture marking the mass data dirty whatever the density is.
CreateFixture_AlwaysDirty(s, shape, def, resetMassData) ==
    IF ~IsValidShape(shape, s) \/ ~IsValidDef(def)
    THEN [s |-> s, ret |-> nullptr]
    ELSE IF s.locked
    THEN [s |-> s, ret |-> nullptr]
    ELSE LET fixture == Allocate(s.fixtures)
             object == [density |-> def.density.v, shape |-> shape, proxies |-> NoProxies]
             placed == IF IsActive(s) THEN CreateProxies(object, s.m_xf) ELSE object
             s1 == [s EXCEPT !.fixtures = (fixture :> placed) @@ @,
                             !.m_fixtures = <<fixture>> \o @]
             s2 == IF resetMassData
                   THEN LegacyResetMassData(SetMassDataDirty(s1))
                   ELSE SetMassDataDirty(s1)
         IN  [s |-> [s2 EXCEPT !.newFixtures = TRUE], ret |-> fixture]

\* CreateFixture without the test of the world's lock.
CreateFixture_NoLockCheck(s, shape, def, resetMassData) ==
    IF ~IsValidShape(shape, s) \/ ~IsValidDef(def)
    THEN [s |-> s, ret |-> nullptr]
    ELSE LET fixture == Allocate(s.fixtures)
             object == [density |-> def.density.v, shape |-> shape, proxies |-> NoProxies]
             placed == IF IsActive(s) THEN CreateProxies(object, s.m_xf) ELSE object
             s1 == [s EXCEPT !.fixtures = (fixture :> placed) @@ @,
                             !.m_fixtures = <<fixture>> \o @]
             s2 == IF placed.density > 0
                   THEN IF resetMassData
                        THEN LegacyResetMassData(SetMassDataDirty(s1))
                        ELSE SetMassDataDirty(s1)
                   ELSE s1
         IN  [s |-> [s2 EXCEPT !.newFixtures = TRUE], ret |-> fixture]

\* Body::CreateFixture with assertions compiled out: the state after the
\* call and the value returned.  Of the definition only the density is read
\* again by the body, so the fixture object keeps the density and the shape.
CreateFixture(s, shape, def, resetMassData) ==
    IF ~IsValidShape(shape, s) \/ ~IsValidDef(def)
    THEN [s |-> s, ret |-> nullptr]
    ELSE IF s.locked
    THEN [s |-> s, ret |-> nullptr]
    ELSE LET fixture == Allocate(s.fixtures)
             object == [density |-> def.density.v, shape |-> shape, proxies |-> NoProxies]
             placed == IF IsActive(s) THEN CreateProxies(object, s.m_xf) ELSE object
             s1 == [s EXCEPT !.fixtures = (fixture :> placed) @@ @,
                             !.m_fixtures = <<fixture>> \o @]
             s2 == IF placed.density > 0
                   THEN IF resetMassData
                        THEN LegacyResetMassData(SetMassDataDirty(s1))
                        ELSE SetMassDataDirty(s1)
                   ELSE s1
         IN  [s |-> [s2 EXCEPT !.newFixtures = TRUE], ret |-> fixture]

\* The contacts of the body's list that reference the fixture, in list order.
ContactsOf(s, fixture) ==
    SelectSeq(s.m_contacts,
              LAMBDA c : s.contacts[c].fixtureA = fixture \/ s.contacts[c].fixtureB = fixture)

\* The loop of DestroyFixture over m_contacts destroys the first contact
\* that references the fixture; destroying it removes it from the list the
\* loop is iterating, after which advancing the iterator is undefined: the
\* loop may go on to any of the later matching contacts or skip them.
DestroyedContacts(s, fixture) ==
    LET matching == ContactsOf(s, fixture)
    IN  IF matching = <<>> THEN {{}}
        ELSE {D \in SUBSET Range(matching) : Head(matching) \in D}

RECURSIVE DestroyContacts(_, _, _)
DestroyContacts(s, list, D) ==
    IF list = <<>> THEN s
    ELSE DestroyContacts(IF Head(list) \in D THEN DestroyContact(s, Head(list)) ELSE s,
                         Tail(list), D)

\* Body::DestroyFixture with assertions compiled out, when its loop destroys
\* the contacts D.
DestroyFixture(s, fixture, resetMassData, D) ==
    IF s.locked THEN s
    ELSE LET s1 == [s EXCEPT !.m_fixtures = SelectSeq(@, LAMBDA x : x # fixture)]
             s2 == DestroyContacts(s1, s1.m_contacts, D)
             s3 == DeleteFixture(DestroyProxies(s2, fixture), fixture)
             s4 == SetMassDataDirty(s3)
         IN  IF resetMassData THEN LegacyResetMassData(s4) ELSE s4

\* Body::InternalDestroyContacts
RECURSIVE InternalDestroyContacts(_)
InternalDestroyContacts(s) ==
    IF s.m_contacts = <<>> THEN s
    ELSE LET contact == Head(s.m_contacts)
         IN  InternalDestroyContacts(
                 DestroyContact([s EXCEPT !.m_contacts = Tail(@)], contact))

\* DestructionListener::SayGoodbye(joint)
SayGoodbyeJoint(s, joint) == Emit(s, "SayGoodbye(Joint)", joint)

\* World::Destroy(Joint*): the joint leaves the world and its storage is
\* released; the body's joint list has let go of it already.
DestroyJointOfWorld(s, joint) == Emit(s, "Destroy(Joint)", joint)

\* Body::InternalDestroyJoints
RECURSIVE InternalDestroyJoints(_)
InternalDestroyJoints(s) ==
    IF s.m_joints = <<>> THEN s
    ELSE LET joint == Head(s.m_joints)
             s1 == [s EXCEPT !.m_joints = Tail(@)]
             s2 == IF s1.destructionListener THEN SayGoodbyeJoint(s1, joint) ELSE s1
         IN  InternalDestroyJoints(DestroyJointOfWorld(s2, joint))

\* Body::InternalDestroyFixtures saying goodbye to a fixture after its
\* proxies are destroyed.
RECURSIVE InternalDestroyFixtures_GoodbyeLate(_)
InternalDestroyFixtures_GoodbyeLate(s) ==
    IF s.m_fixtures = <<>> THEN LegacyResetMassData(s)
    ELSE LET fixture == Head(s.m_fixtures)
             s1 == DestroyProxies([s EXCEPT !.m_fixtures = Tail(@)], fixture)
             s2 == IF s1.destructionListener THEN SayGoodbye(s1, fixture) ELSE s1
         IN  InternalDestroyFixtures_GoodbyeLate(DeleteFixture(s2, fixture))

\* Body::InternalDestroyFixtures
RECURSIVE InternalDestroyFixtures(_)
InternalDestroyFixtures(s) ==
    IF s.m_fixtures = <<>> THEN LegacyResetMassData(s)
    ELSE LET fixture == Head(s.m_fixtures)
             s1 == [s EXCEPT !.m_fixtures = Tail(@)]
             s2 == IF s1.destructionListener THEN SayGoodbye(s1, fixture) ELSE s1
         IN  InternalDestroyFixtures(DeleteFixture(DestroyProxies(s2, fixture), fixture))

\* Body::~Body
BodyDestructor(s) ==
    InternalDestroyFixtures(InternalDestroyContacts(InternalDestroyJoints(s)))

\* Body::DestroyFixtures with assertions compiled out.
DestroyFixtures(s) == IF ~s.locked THEN InternalDestroyFixtures(s) ELSE s

\* Body::SynchronizeFixtures(t1, t2)
SynchronizeFixtures(s, t1, t2) ==
    [s EXCEPT !.fixtures =
        [id \in DOMAIN s.fixtures |->
            IF id \in Range(s.m_fixtures)
            THEN Synchronize(s.fixtures[id], t1, t2)
            ELSE s.fixtures[id]]]

\* GetTransform0(sweep): the transform of the start of the sweep.
GetTransform0(sweep) ==
    [p |-> VSub(sweep.pos0.linear, Rotate(sweep.localCenter, sweep.pos0.angular)),
     q |-> sweep.pos0.angular]


\* Body::SetType adding the flags of the new type to those already set.
SetType_KeepsFlags(s, type) ==
    IF s.locked THEN s
    ELSE IF LegacyGetType(s) = type THEN s
    ELSE LET s1 == [s EXCEPT !.m_flags = @ \cup GetTypeFlags(type)]
             s2 == LegacyResetMassData(s1)
             s3 == LegacySetAwake(s2)
             s4 == InternalDestroyContacts(s3)
         IN  TouchAllProxies(s4, s4.m_fixtures)

\* Body::SetType with assertions compiled out.
SetType(s, type) ==
    IF s.locked THEN s
    ELSE IF LegacyGetType(s) = type THEN s
    ELSE LET s1 == [s EXCEPT !.m_flags =
                        (@ \ {e_impenetrableFlag, e_velocityFlag, e_accelerationFlag})
                            \cup GetTypeFlags(type)]
             s2 == LegacyResetMassData(s1)
             s3 == IF type = "Static"
                   THEN LET r == [s2 EXCEPT !.m_velocity = [linear |-> Vec2_zero, angular |-> 0],
                                            !.m_sweep.pos0 = s2.m_sweep.pos1]
                        IN  SynchronizeFixtures(r, GetTransform0(r.m_sweep), r.m_xf)
                   ELSE s2
             s4 == LegacySetAwake(s3)
             s5 == [s4 EXCEPT !.m_linearAcceleration =
                                  IF IsAccelerable(s4) THEN s4.gravity ELSE Vec2_zero,
                              !.m_angularAcceleration = 0]
             s6 == InternalDestroyContacts(s5)
         IN  TouchAllProxies(s6, s6.m_fixtures)

\* The rotational inertia about the center of mass that SetMassData inverts.
CenteredInertia(massData) ==
    LET mass == IF massData.mass > 0 THEN massData.mass ELSE 1
    IN  massData.I - mass * GetMagnitudeSquared(massData.center)

\* Body::SetMassData with assertions compiled out.
SetMassData(s, massData) ==
    IF s.locked THEN s
    ELSE IF ~IsAccelerable(s) THEN s
    ELSE LET mass == IF massData.mass > 0 THEN massData.mass ELSE 1
             invI == IF massData.I > 0 /\ ~IsFixedRotation(s)
                     THEN <<1, CenteredInertia(massData)>> ELSE FracZero
             oldCenter == GetWorldCenter(s)
             newCenter == Transform(massData.center, s.m_xf)
         IN  UnsetMassDataDirty(
                 [s EXCEPT !.m_invMass = <<1, mass>>,
                           !.m_invI = invI,
                           !.m_sweep = Sweep(newCenter, GetBodyAngle(s), massData.center),
                           !.m_velocity.linear =
                               VAdd(@, VMul(GetRevPerpendicular(VSub(newCenter, oldCenter)),
                                            s.m_velocity.angular))])

\* Body::SetFixedRotation of the legacy engine.
LegacySetFixedRotation(s, flag) ==
    IF IsFixedRotation(s) = flag
    THEN s
    ELSE LET f == IF flag THEN s.m_flags \cup {e_fixedRotationFlag}
                          ELSE s.m_flags \ {e_fixedRotationFlag}
         IN  LegacyResetMassData([s EXCEPT !.m_flags = f, !.m_velocity.angular = 0])

\* Body::SetTransform with assertions compiled out.
SetTransform(s, position, angle) ==
    IF s.locked THEN s
    ELSE LET xf == [p |-> position, q |-> angle]
             localCenter == s.m_sweep.localCenter
             s1 == [s EXCEPT !.m_xf = xf,
                             !.m_sweep = Sweep(Transform(localCenter, xf), angle, localCenter)]
         IN  SynchronizeFixtures(s1, xf, xf)

\* Body::Body(const BodyDef&, World*) inside a new, unlocked world.
LegacyWorld(bd, listener) ==
    [m_flags |-> LegacyGetFlags(bd),
     m_xf |-> [p |-> bd.position, q |-> bd.angle],
     m_sweep |-> Sweep(bd.position, bd.angle, Vec2_zero),
     m_velocity |-> [linear |-> bd.linearVelocity, angular |-> bd.angularVelocity],
     m_invMass |-> IF bd.type = "Dynamic" THEN <<1, 1>> ELSE FracZero,
     m_invI |-> FracZero,
     m_sleepTime |-> bd.sleepTime,
     m_linearAcceleration |-> Vec2_zero,
     m_angularAcceleration |-> 0,
     m_fixtures |-> <<>>,
     m_contacts |-> <<>>,
     m_joints |-> <<>>,
     locked |-> FALSE,
     newFixtures |-> FALSE,
     gravity |-> <<0, -1>>,
     minVertexRadius |-> Fin(1),
     maxVertexRadius |-> Fin(3),
     fixtures |-> <<>>,
     contacts |-> <<>>,
     destructionListener |-> listener,
     aborted |-> FALSE,
     trace |-> <<>>]

\* The state a call starts from: nothing done to other objects yet.
Begin(s) == [s EXCEPT !.trace = <<>>]

(* What a call can do.  An assert whose condition is false aborts the      *)
(* process when assertions are compiled in and is skipped otherwise.       *)

CreateFixtureOutcomes(s, shape, def, resetMassData) ==
    {CreateFixture(s, shape, def, resetMassData)}
        \cup IF IsValidShape(shape, s) /\ IsValidDef(def) /\ s.locked
             THEN {[s |-> Abort(s), ret |-> nullptr]} ELSE {}

DestroyFixtureOutcomes(s, fixture, resetMassData) ==
    {DestroyFixture(s, fixture, resetMassData, D) : D \in DestroyedContacts(s, fixture)}
        \cup IF s.locked \/ ContactsOf(s, fixture) # <<>> THEN {Abort(s)} ELSE {}

DestroyFixturesOutcomes(s) ==
    {DestroyFixtures(s)} \cup IF s.locked THEN {Abort(s)} ELSE {}

SetTypeOutcomes(s, type) ==
    {SetType(s, type)} \cup IF s.locked THEN {Abort(s)} ELSE {}

SetMassDataOutcomes(s, massData) ==
    {SetMassData(s, massData)}
        \cup IF \/ s.locked
                \/ /\ IsAccelerable(s)
                   /\ massData.I > 0
                   /\ ~IsFixedRotation(s)
                   /\ ~(CenteredInertia(massData) > 0)
             THEN {Abort(s)} ELSE {}

SetTransformOutcomes(s, position, angle) ==
    {SetTransform(s, position, angle)} \cup IF s.locked THEN {Abort(s)} ELSE {}


-----------------------------------------------------------------------------
(* The legacy scenario: a body is created in a new world; steps begin and  *)
(* end, contacts appear during a step, and the body's operations are       *)
(* called at any time, also from inside a step.                            *)

LegacyShape(disk, vertexRadius) ==
    [present |-> TRUE, vertexRadius |-> vertexRadius, childCount |-> 1,
     unitMass |-> disk.unitMass, center |-> disk.center, unitI |-> disk.unitI]

NoShape ==
    [present |-> FALSE, vertexRadius |-> NaN, childCount |-> 0,
     unitMass |-> 0, center |-> Vec2_zero, unitI |-> 0]

DefaultFixtureDef == [density |-> Fin(0), friction |-> Fin(0), restitution |-> Fin(0)]

FixtureInput(shape, def, resetMassData) ==
    [shape |-> shape, def |-> def, resetMassData |-> resetMassData]

HeavyShape == LegacyShape(Disk(1, 1, <<1, 0>>), Fin(2))

LightShape == LegacyShape(Disk(1, 1, <<0, 0>>), Fin(1))

\* The CreateFixture calls made in the scenario: valid ones and rejected ones.
CreateInputs ==
    {FixtureInput(HeavyShape, [DefaultFixtureDef EXCEPT !.density = Fin(1)], r) : r \in BOOLEAN}
    \cup {FixtureInput(LightShape, [DefaultFixtureDef EXCEPT !.restitution = Fin(-1)], FALSE)}
    \cup {FixtureInput(NoShape, DefaultFixtureDef, FALSE)}

\* Every shape and material a CreateFixture call is examined with.
VertexRadii == {Fin(0), Fin(1), Fin(2), Fin(3), Fin(4), NaN, PosInfinity, NegInfinity}

AllShapes ==
    {NoShape} \cup {LegacyShape(Disk(1, 1, <<1, 0>>), vr) : vr \in VertexRadii}

AllFixtureDefs ==
    [density : {Fin(-1), Fin(0), Fin(1), NaN, NegInfinity},
     friction : {Fin(-1), Fin(0), Fin(1), NaN, PosInfinity, NegInfinity},
     restitution : {Fin(-1), Fin(0), Fin(1), NaN, PosInfinity, NegInfinity}]

AllFixtureInputs == [shape : AllShapes, def : AllFixtureDefs, resetMassData : BOOLEAN]

LegacyBodyDefs ==
    [type : BodyTypes,
     bullet : {FALSE},
     fixedRotation : {FALSE},
     allowSleep : {TRUE},
     awake : {TRUE},
     active : BOOLEAN,
     position : {Vec2_zero},
     angle : {0},
     linearVelocity : {<<Scale, 0>>},
     angularVelocity : {0},
     sleepTime : {0}]

MassDatas ==
    {[mass |-> 2, center |-> <<Scale, 0>>, I |-> 3 * Scale * Scale],
     [mass |-> 0, center |-> Vec2_zero, I |-> 0]}

Transformations == {[p |-> Vec2_zero, q |-> 0], [p |-> <<Scale, 0>>, q |-> 1]}

\* A fixture of another body.
OtherFixture == MaxLegacyFixtures + 1

LegacyOthersIdle == BodyIdle /\ AdjIdle /\ WorldIdle

InitLegacy ==
    /\ \E bd \in LegacyBodyDefs :
          /\ legacy = LegacyWorld(bd, TRUE)
          /\ last = Call("CreateBody", bd, 0)
    /\ LegacyOthersIdle
    /\ ChainIdle

LegacyFrame == UNCHANGED <<bodyVars, adjVars, worldVars, chainVars>>

\* What is known of a call afterwards: nothing when the process was aborted.
Returned(s, call) == IF s.aborted THEN Call("abort", 0, 0) ELSE call

\* World::Step begins: the contact manager has looked for the contacts of
\* new fixtures and of moved proxies, and the world is locked.
StepBegin ==
    /\ ~legacy.aborted
    /\ ~legacy.locked
    /\ legacy' = [Begin(legacy) EXCEPT
                     !.locked = TRUE,
                     !.newFixtures = FALSE]
    /\ last' = Call("StepBegin", 0, 0)
    /\ LegacyFrame

\* The fixtures that contacts of the world reference.
InContact(s) ==
    UNION {{s.contacts[c].fixtureA, s.contacts[c].fixtureB} : c \in DOMAIN s.contacts}

\* During a step the contact manager adds a contact between a fixture of the
\* body that has proxies and a fixture of another body, unless it has a
\* contact for the two already.
AddContact ==
    /\ ~legacy.aborted
    /\ legacy.locked
    /\ \E fixture \in Range(legacy.m_fixtures) \ InContact(legacy), first \in BOOLEAN :
          /\ legacy.fixtures[fixture].proxies.count > 0
          /\ LET contact == Allocate(legacy.contacts)
                 object == IF first
                           THEN [fixtureA |-> fixture, fixtureB |-> OtherFixture]
                           ELSE [fixtureA |-> OtherFixture, fixtureB |-> fixture]
             IN  /\ legacy' = [Begin(legacy) EXCEPT
                                  !.contacts = (contact :> object) @@ @,
                                  !.m_contacts = Append(@, contact)]
                 /\ last' = Call("AddContact", contact, 0)
    /\ LegacyFrame

\* World::Step ends: the world is unlocked.
StepEnd ==
    /\ ~legacy.aborted
    /\ legacy.locked
    /\ legacy' = [Begin(legacy) EXCEPT !.locked = FALSE]
    /\ last' = Call("StepEnd", 0, 0)
    /\ LegacyFrame

\* A call of CreateFixture with one of the inputs.
CallCreateFixture(inputs) ==
    /\ ~legacy.aborted
    /\ \E in \in inputs :
          \E r \in CreateFixtureOutcomes(Begin(legacy), in.shape, in.def, in.resetMassData) :
              /\ r.ret # nullptr => Len(legacy.m_fixtures) < MaxLegacyFixtures
              /\ legacy' = r.s
              /\ last' = Returned(r.s, Call("CreateFixture", in, r.ret))
    /\ LegacyFrame

DoCreateFixture == CallCreateFixture(CreateInputs)

DoDestroyFixture ==
    /\ ~legacy.aborted
    /\ \E fixture \in Range(legacy.m_fixtures), resetMassData \in BOOLEAN :
          /\ legacy' \in DestroyFixtureOutcomes(Begin(legacy), fixture, resetMassData)
          /\ last' = Returned(legacy', Call("DestroyFixture", 0, 0))
    /\ LegacyFrame

DoDestroyFixtures ==
    /\ ~legacy.aborted
    /\ legacy' \in DestroyFixturesOutcomes(Begin(legacy))
    /\ last' = Returned(legacy', Call("DestroyFixtures", 0, 0))
    /\ LegacyFrame

DoSetType ==
    /\ ~legacy.aborted
    /\ \E type \in BodyTypes :
          /\ legacy' \in SetTypeOutcomes(Begin(legacy), type)
          /\ last' = Returned(legacy', Call("SetType", 0, 0))
    /\ LegacyFrame

DoSetMassData ==
    /\ ~legacy.aborted
    /\ \E massData \in MassDatas :
          /\ legacy' \in SetMassDataOutcomes(Begin(legacy), massData)
          /\ last' = Returned(legacy', Call("SetMassData", 0, 0))
    /\ LegacyFrame

DoSetTransform ==
    /\ ~legacy.aborted
    /\ \E xf \in Transformations :
          /\ legacy' \in SetTransformOutcomes(Begin(legacy), xf.p, xf.q)
          /\ last' = Returned(legacy', Call("SetTransform", 0, 0))
    /\ LegacyFrame

NextLegacy ==
    \/ StepBegin
    \/ AddContact
    \/ StepEnd
    \/ DoCreateFixture
    \/ DoDestroyFixture
    \/ DoDestroyFixtures
    \/ DoSetType
    \/ DoSetMassData
    \/ DoSetTransform

SpecLegacy == InitLegacy /\ [][NextLegacy]_vars


-----------------------------------------------------------------------------
(* Properties of the legacy scenario. *)

LockedOps ==
    {"CreateFixture", "DestroyFixture", "DestroyFixtures", "SetType", "SetMassData",
     "SetTransform"}

\* C4: while the world is locked, a call of CreateFixture, DestroyFixture,
\* DestroyFixtures, SetType, SetMassData or SetTransform leaves the body's
\* fixture list, contact list, flags, mass data, transform, sweep and
\* velocity, the fixtures' proxies, the contacts and the world's new-fixtures
\* flag as they were, does nothing to any other object, and CreateFixture
\* returns no fixture.  (With assertions compiled in the call aborts the
\* process instead of returning; the state is left the same then too.)
C4_LockedNoEffect ==
    [][(legacy.locked /\ last'.op \in LockedOps \cup {"abort"}) =>
          /\ legacy'.m_fixtures = legacy.m_fixtures
          /\ legacy'.m_contacts = legacy.m_contacts
          /\ legacy'.m_flags = legacy.m_flags
          /\ legacy'.m_invMass = legacy.m_invMass
          /\ legacy'.m_invI = legacy.m_invI
          /\ legacy'.m_xf = legacy.m_xf
          /\ legacy'.m_sweep = legacy.m_sweep
          /\ legacy'.m_velocity = legacy.m_velocity
          /\ legacy'.fixtures = legacy.fixtures
          /\ legacy'.contacts = legacy.contacts
          /\ legacy'.newFixtures = legacy.newFixtures
          /\ legacy'.locked
          /\ legacy'.trace = <<>>
          /\ last'.op = "CreateFixture" => last'.res = nullptr]_vars

\* A valid CreateFixture call has returned no fixture in a locked world whose
\* body has a fixture with proxies and a contact.
C4_Witness ==
    /\ legacy.locked
    /\ ~legacy.aborted
    /\ last.op = "CreateFixture"
    /\ IsValidShape(last.arg.shape, legacy)
    /\ IsValidDef(last.arg.def)
    /\ last.res = nullptr
    /\ legacy.m_contacts # <<>>
    /\ \E id \in Range(legacy.m_fixtures) : legacy.fixtures[id].proxies.count > 0


-----------------------------------------------------------------------------
(* The fixture-creation scenario: CreateFixture is called with every kind  *)
(* of shape and material, inside and outside a step; DestroyFixtures makes *)
(* room again.                                                             *)

DefaultInput ==
    FixtureInput(HeavyShape, [DefaultFixtureDef EXCEPT !.density = Fin(1)], FALSE)

\* In how many of shape, density, friction and restitution an input departs
\* from the default one.
Departures(in) ==
    (IF in.shape # DefaultInput.shape THEN 1 ELSE 0)
        + (IF in.def.density # DefaultInput.def.density THEN 1 ELSE 0)
        + (IF in.def.friction # DefaultInput.def.friction THEN 1 ELSE 0)
        + (IF in.def.restitution # DefaultInput.def.restitution THEN 1 ELSE 0)

\* The inputs tried: the default one changed in at most one respect.
TryInputs == {in \in AllFixtureInputs : Departures(in) <= 1}

TryCreateFixture == CallCreateFixture(TryInputs)

NextCreate ==
    \/ StepBegin
    \/ StepEnd
    \/ TryCreateFixture
    \/ DoDestroyFixtures

SpecCreate == InitLegacy /\ [][NextCreate]_vars

\* The inputs the claim lists as rejected.
ListedAsRejected(in, s) ==
    \/ ~in.shape.present
    \/ /\ in.shape.present
       /\ \/ FLT(in.shape.vertexRadius, s.minVertexRadius)
          \/ FGT(in.shape.vertexRadius, s.maxVertexRadius)
    \/ FLT(in.def.density, Fin(0))
    \/ FLT(in.def.friction, Fin(0))
    \/ in.def.restitution \in {PosInfinity, NegInfinity, NaN}

\* The listed inputs and those whose vertex radius, density or friction is NaN.
ListedOrNaN(in, s) ==
    \/ ListedAsRejected(in, s)
    \/ in.shape.present /\ isnan(in.shape.vertexRadius)
    \/ isnan(in.def.density)
    \/ isnan(in.def.friction)

\* A step that changed nothing of the fixture list, the mass-data-dirty flag,
\* the mass data, the proxies and the world's new-fixtures flag.
CreateChangedNothing ==
    /\ legacy'.m_fixtures = legacy.m_fixtures
    /\ IsMassDataDirty(legacy') = IsMassDataDirty(legacy)
    /\ legacy'.m_invMass = legacy.m_invMass
    /\ legacy'.m_invI = legacy.m_invI
    /\ legacy'.m_sweep = legacy.m_sweep
    /\ legacy'.fixtures = legacy.fixtures
    /\ legacy'.newFixtures = legacy.newFixtures

\* C5 as stated: CreateFixture returns no fixture and changes nothing when
\* the shape is absent, the vertex radius is below the minimum or above the
\* maximum, the density or the friction is negative or the restitution is
\* not finite; for every other input on an unlocked world it returns a
\* fixture.
C5_RejectsExactlyListed ==
    [][last'.op = "CreateFixture" =>
          /\ ListedAsRejected(last'.arg, legacy) =>
                 last'.res = nullptr /\ CreateChangedNothing
          /\ (~ListedAsRejected(last'.arg, legacy) /\ ~legacy.locked) =>
                 last'.res # nullptr]_vars

\* C5 amended: CreateFixture returns no fixture and changes nothing when the
\* shape is absent, the vertex radius is NaN, below the minimum or above the
\* maximum, the density or the friction is negative or NaN, or the
\* restitution is not finite; for every other input on an unlocked world it
\* returns a fixture.
C5_RejectsListedOrNaN ==
    [][last'.op = "CreateFixture" =>
          /\ ListedOrNaN(last'.arg, legacy) =>
                 last'.res = nullptr /\ CreateChangedNothing
          /\ (~ListedOrNaN(last'.arg, legacy) /\ ~legacy.locked) =>
                 last'.res # nullptr /\ last'.res \in Range(legacy'.m_fixtures)]_vars

\* CreateFixture has returned no fixture for a NaN density on an unlocked
\* world whose body has a fixture already.
C5_Witness ==
    /\ ~legacy.locked
    /\ ~legacy.aborted
    /\ last.op = "CreateFixture"
    /\ last.arg.shape = HeavyShape
    /\ isnan(last.arg.def.density)
    /\ last.res = nullptr
    /\ legacy.m_fixtures # <<>>


-----------------------------------------------------------------------------
(* The current engine's world, as far as body identifiers go.  Bodies live *)
(* in a table indexed by identifier, from 0; a destroyed body's slot is    *)
(* free and its identifier is issued again by a later CreateBody.  The     *)
(* field issued is history, not program state: the identifiers CreateBody  *)
(* returned that Destroy was not called with since.                        *)

FreeSlot == [live |-> FALSE, body |-> "none", joints |-> <<>>, fixtures |-> <<>>, contacts |-> <<>>]

NewSlot(def) == [live |-> TRUE, body |-> def, joints |-> <<>>, fixtures |-> <<>>, contacts |-> <<>>]

\* The slot of identifier id: the table is a sequence, identifiers count from 0.
SlotOf(w, id) == w.m_bodyBuffer[id + 1]

\* GetBodyRange(world)
GetBodyRange(w) == Len(w.m_bodyBuffer)

\* Whether the identifier is valid in the world: inside the range and not free.
IsValidId(w, id) == id >= 0 /\ id < GetBodyRange(w) /\ SlotOf(w, id).live

Ok(w, ret) == [w |-> w, ret |-> ret, error |-> "none"]

NotFound(w) == [w |-> w, ret |-> "none", error |-> "out_of_range"]

\* CreateBody(world, def): the identifier freed last is issued again, or the
\* table grows by one slot.
CreateBody(w, def) ==
    IF w.m_free # <<>>
    THEN LET id == w.m_free[Len(w.m_free)]
         IN  Ok([w EXCEPT !.m_bodyBuffer[id + 1] = NewSlot(def),
                          !.m_free = SubSeq(@, 1, Len(@) - 1),
                          !.issued = @ \cup {id}],
                id)
    ELSE LET id == Len(w.m_bodyBuffer)
         IN  Ok([w EXCEPT !.m_bodyBuffer = Append(@, NewSlot(def)),
                          !.issued = @ \cup {id}],
                id)

\* Destroy that gives the last slot of the table back instead of keeping it
\* as a free slot.
Destroy_ShrinksTable(w, id) ==
    IF ~IsValidId(w, id) THEN NotFound(w)
    ELSE IF id + 1 = Len(w.m_bodyBuffer)
    THEN Ok([w EXCEPT !.m_bodyBuffer = SubSeq(@, 1, Len(@) - 1),
                      !.issued = @ \ {id}],
            "none")
    ELSE Ok([w EXCEPT !.m_bodyBuffer[id + 1] = FreeSlot,
                      !.m_free = Append(@, id),
                      !.issued = @ \ {id}],
            "none")

\* Destroy(world, id)
Destroy(w, id) ==
    IF ~IsValidId(w, id) THEN NotFound(w)
    ELSE Ok([w EXCEPT !.m_bodyBuffer[id + 1] = FreeSlot,
                      !.m_free = Append(@, id),
                      !.issued = @ \ {id}],
            "none")

\* GetBody that only tests the identifier against the range of the table.
GetBody_RangeCheckOnly(w, id) ==
    IF ~(id >= 0 /\ id < GetBodyRange(w)) THEN NotFound(w) ELSE Ok(w, SlotOf(w, id).body)

\* GetBody(world, id)
GetBody(w, id) ==
    IF ~IsValidId(w, id) THEN NotFound(w) ELSE Ok(w, SlotOf(w, id).body)

\* SetBody(world, id, value)
SetBody(w, id, value) ==
    IF ~IsValidId(w, id) THEN NotFound(w)
    ELSE Ok([w EXCEPT !.m_bodyBuffer[id + 1].body = value], "none")

\* GetJoints(world, id)
GetJoints(w, id) ==
    IF ~IsValidId(w, id) THEN NotFound(w) ELSE Ok(w, SlotOf(w, id).joints)

\* GetFixtures(world, id)
GetFixtures(w, id) ==
    IF ~IsValidId(w, id) THEN NotFound(w) ELSE Ok(w, SlotOf(w, id).fixtures)

\* GetContacts(world, id)
GetContacts(w, id) ==
    IF ~IsValidId(w, id) THEN NotFound(w) ELSE Ok(w, SlotOf(w, id).contacts)

\* The identifiers calls are made with: every one the table can issue, the
\* one past them, and the invalid identifier.
InvalidBodyID == 0 - 1

QueriedIds == {InvalidBodyID} \cup (0 .. MaxBodies)

WorldFrame == UNCHANGED <<bodyVars, adjVars, legacyVars, chainVars>>

InitWorld ==
    /\ world = NoWorld
    /\ last = NoCall
    /\ BodyIdle
    /\ AdjIdle
    /\ LegacyIdle
    /\ ChainIdle

\* A call with result r: the world is as the call left it.
WorldCall(op, arg, r) ==
    /\ world' = r.w
    /\ last' = Call(op, arg, [ret |-> r.ret, error |-> r.error])
    /\ WorldFrame

DoCreateBody ==
    \E type \in BodyTypes :
        /\ world.m_free # <<>> \/ Len(world.m_bodyBuffer) < MaxBodies
        /\ WorldCall("CreateBody", type, CreateBody(world, type))

DoDestroy == \E id \in QueriedIds : WorldCall("Destroy", id, Destroy(world, id))

DoGetBody == \E id \in QueriedIds : WorldCall("GetBody", id, GetBody(world, id))

DoSetBody ==
    \E id \in QueriedIds, type \in BodyTypes :
        WorldCall("SetBody", id, SetBody(world, id, type))

DoGetJoints == \E id \in QueriedIds : WorldCall("GetJoints", id, GetJoints(world, id))

DoGetFixtures == \E id \in QueriedIds : WorldCall("GetFixtures", id, GetFixtures(world, id))

DoGetContacts == \E id \in QueriedIds : WorldCall("GetContacts", id, GetContacts(world, id))

NextWorld ==
    \/ DoCreateBody
    \/ DoDestroy
    \/ DoGetBody
    \/ DoSetBody
    \/ DoGetJoints
    \/ DoGetFixtures
    \/ DoGetContacts

SpecWorld == InitWorld /\ [][NextWorld]_vars

IdOps == {"GetBody", "SetBody", "GetJoints", "GetFixtures", "GetContacts"}

\* C6: after any CreateBody and Destroy calls, GetBody, SetBody, GetJoints,
\* GetFixtures and GetContacts called with an identifier that CreateBody
\* never returned, or that Destroy was called with since, fail with the
\* out-of-range error and leave the world as it was; called with an
\* identifier CreateBody returned and Destroy was not called with since,
\* they do not fail.
C6_InvalidIdNotFound ==
    [][last'.op \in IdOps =>
          IF last'.arg \in world.issued
          THEN last'.res.error = "none"
          ELSE last'.res.error = "out_of_range" /\ world' = world]_vars

\* GetBody has failed for an identifier that was issued and destroyed, while
\* another body is alive.
C6_Witness ==
    /\ last.op = "GetBody"
    /\ last.res.error = "out_of_range"
    /\ last.arg >= 0
    /\ last.arg < GetBodyRange(world)
    /\ world.issued # {}


-----------------------------------------------------------------------------
(* The body type scenario: a body of either engine is constructed, and the *)
(* type of the legacy body is set again and again, between and during      *)
(* steps, while fixtures are attached to it.  The result field of the      *)
(* last call carries the type in force: the type of the definition, then   *)
(* the type of the latest SetType call made while the world was unlocked.  *)

TypeBodyDefs ==
    [type : BodyTypes,
     bullet : BOOLEAN,
     fixedRotation : BOOLEAN,
     allowSleep : {TRUE},
     awake : BOOLEAN,
     active : BOOLEAN,
     position : {Vec2_zero},
     angle : {0},
     linearVelocity : {<<Scale, 0>>},
     angularVelocity : {0},
     sleepTime : {0}]

\* The definition of the current engine that corresponds to a legacy one.
AsBodyConf(bd) ==
    [DefaultBodyConf(bd.type) EXCEPT
        !.bullet = bd.bullet,
        !.fixedRotation = bd.fixedRotation,
        !.awake = bd.awake,
        !.enabled = bd.active]

InitType ==
    /\ \E bd \in TypeBodyDefs :
          /\ legacy = LegacyWorld(bd, TRUE)
          /\ body = NewBody(AsBodyConf(bd))
          /\ last = Call("CreateBody", bd, bd.type)
    /\ AdjIdle
    /\ WorldIdle
    /\ ChainIdle

TypeFrame == UNCHANGED <<bodyVars, adjVars, worldVars, chainVars>>

TypeStepBegin ==
    /\ ~legacy.aborted
    /\ ~legacy.locked
    /\ legacy' = [Begin(legacy) EXCEPT !.locked = TRUE, !.newFixtures = FALSE]
    /\ last' = Call("StepBegin", 0, last.res)
    /\ TypeFrame

TypeStepEnd ==
    /\ ~legacy.aborted
    /\ legacy.locked
    /\ legacy' = [Begin(legacy) EXCEPT !.locked = FALSE]
    /\ last' = Call("StepEnd", 0, last.res)
    /\ TypeFrame

TypeCreateFixture ==
    /\ ~legacy.aborted
    /\ \E in \in CreateInputs :
          \E r \in CreateFixtureOutcomes(Begin(legacy), in.shape, in.def, in.resetMassData) :
              /\ r.ret # nullptr => Len(legacy.m_fixtures) < MaxLegacyFixtures
              /\ legacy' = r.s
              /\ last' = Returned(r.s, Call("CreateFixture", 0, last.res))
    /\ TypeFrame

TypeSetType ==
    /\ ~legacy.aborted
    /\ \E type \in BodyTypes :
          /\ legacy' \in SetTypeOutcomes(Begin(legacy), type)
          /\ last' = Returned(legacy', Call("SetType", type,
                                           IF legacy.locked THEN last.res ELSE type))
    /\ TypeFrame

NextType ==
    \/ TypeStepBegin
    \/ TypeStepEnd
    \/ TypeCreateFixture
    \/ TypeSetType

SpecType == InitType /\ [][NextType]_vars

\* The capabilities a body of the type has.
HasCapabilitiesOf(b, type) ==
    CASE type = "Dynamic"   -> IsSpeedable(b) /\ IsAccelerable(b)
      [] type = "Kinematic" -> IsImpenetrable(b) /\ IsSpeedable(b) /\ ~IsAccelerable(b)
      [] type = "Static"    -> IsImpenetrable(b) /\ ~IsSpeedable(b) /\ ~IsAccelerable(b)

\* The inverse mass a body of the type is constructed with.
ConstructedInvMass(type) == IF type = "Dynamic" THEN <<1, 1>> ELSE FracZero

\* C11: the capability flags match the body type.  A body of either engine
\* is constructed with the capabilities of the type of its definition, with
\* inverse mass 1/(1 kg) if that type is dynamic and inverse mass 0 if not;
\* and after any SetType calls of the legacy engine, with or without
\* fixtures attached, the body has the capabilities of the type in force:
\* velocity and acceleration for dynamic, impenetrable and velocity without
\* acceleration for kinematic, impenetrable with neither for static.
C11_FlagsMatchType ==
    ~legacy.aborted =>
        /\ HasCapabilitiesOf(legacy, last.res)
        /\ last.op = "CreateBody" =>
              /\ HasCapabilitiesOf(body, last.arg.type)
              /\ legacy.m_invMass = ConstructedInvMass(last.arg.type)
              /\ body.m_invMass = ConstructedInvMass(last.arg.type)

\* A body with a fixture that has proxies has been given the kinematic type
\* while the world was unlocked.
C11_Witness ==
    /\ last.op = "SetType"
    /\ last.res = "Kinematic"
    /\ ~legacy.locked
    /\ legacy.trace # <<>>
    /\ legacy.m_fixtures # <<>>
    /\ HasCapabilitiesOf(legacy, "Kinematic")


-----------------------------------------------------------------------------
(* What a successful CreateFixture leaves behind, in the fixture-creation  *)
(* scenario.                                                               *)

\* The body's mass data: what ResetMassData computes.
MassDataOf(s) ==
    [invMass |-> s.m_invMass, invI |-> s.m_invI, sweep |-> s.m_sweep,
     velocity |-> s.m_velocity]

\* The mass data is what ResetMassData computes from the fixtures the body
\* has now, and is not marked dirty.
MassDataRecomputed(s) ==
    /\ ~IsMassDataDirty(s)
    /\ MassDataOf(LegacyResetMassData(s)) = MassDataOf(s)

\* The new fixture heads the body's fixture collection, and it has proxies
\* if and only if the body is active.
LinkedAndPlaced(s, fixture) ==
    /\ s.m_fixtures # <<>>
    /\ Head(s.m_fixtures) = fixture
    /\ fixture \in DOMAIN s.fixtures
    /\ (s.fixtures[fixture].proxies.count > 0) <=> IsActive(s)

\* C12 as stated: every successful CreateFixture leaves the new fixture
\* linked in the body's fixture collection, with proxies if and only if the
\* body is active, the mass data marked dirty (or recomputed when the
\* reset-mass flag is given), and the world's new-fixtures flag set.
C12_CreateMarksDirty ==
    [][(last'.op = "CreateFixture" /\ last'.res # nullptr) =>
          /\ LinkedAndPlaced(legacy', last'.res)
          /\ \/ IsMassDataDirty(legacy')
             \/ last'.arg.resetMassData /\ MassDataRecomputed(legacy')
          /\ legacy'.newFixtures]_vars

\* C12 amended: every successful CreateFixture leaves the new fixture linked
\* in the body's fixture collection, with proxies if and only if the body
\* is active, and the world's new-fixtures flag set; if the fixture's
\* density is positive the mass data is marked dirty, or recomputed and not
\* dirty when the reset-mass flag is given; if the density is zero the mass
\* data and the dirty mark are left as they were, whatever the flag is.
C12_CreateMarksDirtyIfDense ==
    [][(last'.op = "CreateFixture" /\ last'.res # nullptr) =>
          /\ LinkedAndPlaced(legacy', last'.res)
          /\ IF FGT(last'.arg.def.density, Fin(0))
             THEN IF last'.arg.resetMassData
                  THEN MassDataRecomputed(legacy')
                  ELSE IsMassDataDirty(legacy')
             ELSE /\ MassDataOf(legacy') = MassDataOf(legacy)
                  /\ IsMassDataDirty(legacy') <=> IsMassDataDirty(legacy)
          /\ legacy'.newFixtures]_vars

\* A fixture of density zero has been created on an active body, with the
\* reset-mass flag given, and the mass data is not marked dirty.
C12_Witness ==
    /\ last.op = "CreateFixture"
    /\ last.res # nullptr
    /\ last.arg.def.density = Fin(0)
    /\ last.arg.resetMassData
    /\ IsActive(legacy)
    /\ legacy.fixtures[last.res].proxies.count > 0
    /\ ~IsMassDataDirty(legacy)
    /\ legacy.newFixtures


-----------------------------------------------------------------------------
(* The fixture-destruction scenario: a body gets several fixtures, steps   *)
(* bring contacts between them and fixtures of other bodies, several for   *)
(* one fixture too, and DestroyFixture is called for any of the fixtures.  *)

\* Fixtures of other bodies.
OtherFixtures == {MaxFixtures + 1 + k : k \in 1 .. MaxContacts}

DestroyInputs ==
    {FixtureInput(HeavyShape, [DefaultFixtureDef EXCEPT !.density = Fin(1)], FALSE),
     FixtureInput(LightShape, DefaultFixtureDef, FALSE)}

InitDestroy ==
    /\ \E bd \in LegacyBodyDefs, listener \in BOOLEAN :
          /\ legacy = LegacyWorld(bd, listener)
          /\ last = Call("CreateBody", 0, 0)
    /\ LegacyOthersIdle
    /\ ChainIdle

\* CreateFixture called between steps.
FixtureAppears ==
    /\ ~legacy.aborted
    /\ ~legacy.locked
    /\ Len(legacy.m_fixtures) < MaxFixtures
    /\ \E in \in DestroyInputs :
          LET r == CreateFixture(Begin(legacy), in.shape, in.def, in.resetMassData)
          IN  /\ legacy' = r.s
              /\ last' = Call("CreateFixture", 0, r.ret)
    /\ LegacyFrame

\* The contacts of the world between the two fixtures, in either order.
ContactsBetween(s, f, g) ==
    {c \in DOMAIN s.contacts :
        {s.contacts[c].fixtureA, s.contacts[c].fixtureB} = {f, g}}

\* During a step the contact manager adds a contact between a fixture of the
\* body that has proxies and a fixture of another body, unless it has a
\* contact for the two already.
ContactAppears ==
    /\ ~legacy.aborted
    /\ legacy.locked
    /\ Cardinality(DOMAIN legacy.contacts) < MaxContacts
    /\ \E fixture \in Range(legacy.m_fixtures), other \in OtherFixtures, first \in BOOLEAN :
          /\ legacy.fixtures[fixture].proxies.count > 0
          /\ ContactsBetween(legacy, fixture, other) = {}
          /\ LET contact == Allocate(legacy.contacts)
                 object == IF first
                           THEN [fixtureA |-> fixture, fixtureB |-> other]
                           ELSE [fixtureA |-> other, fixtureB |-> fixture]
             IN  /\ legacy' = [Begin(legacy) EXCEPT
                                  !.contacts = (contact :> object) @@ @,
                                  !.m_contacts = Append(@, contact)]
                 /\ last' = Call("AddContact", 0, contact)
    /\ LegacyFrame

\* DestroyFixture called for a fixture of the body.
CallDestroyFixture ==
    /\ ~legacy.aborted
    /\ \E fixture \in Range(legacy.m_fixtures), resetMassData \in BOOLEAN :
          /\ legacy' \in DestroyFixtureOutcomes(Begin(legacy), fixture, resetMassData)
          /\ last' = Returned(legacy',
                              Call("DestroyFixture",
                                   [fixture |-> fixture, resetMassData |-> resetMassData], 0))
    /\ LegacyFrame

NextDestroy ==
    \/ StepBegin
    \/ StepEnd
    \/ FixtureAppears
    \/ ContactAppears
    \/ CallDestroyFixture

SpecDestroy == InitDestroy /\ [][NextDestroy]_vars

\* The contacts of the world that reference the fixture.
Referencing(s, fixture) ==
    {c \in DOMAIN s.contacts :
        s.contacts[c].fixtureA = fixture \/ s.contacts[c].fixtureB = fixture}

\* C13: after DestroyFixture(f) on an unlocked world, f is no longer in the
\* body's fixture collection, every contact that referenced f as fixture A
\* or B is destroyed and absent from the body's contact list, every contact
\* that did not reference f is still present, f's proxies are destroyed and
\* its storage released, and the mass data is marked dirty or, with the
\* reset-mass flag, recomputed.
C13_DestroyFixtureEffects ==
    [][(last'.op = "DestroyFixture" /\ ~legacy.locked) =>
          LET f == last'.arg.fixture
          IN  /\ f \notin Range(legacy'.m_fixtures)
              /\ \A c \in Referencing(legacy, f) :
                    /\ c \notin DOMAIN legacy'.contacts
                    /\ c \notin Range(legacy'.m_contacts)
              /\ \A c \in DOMAIN legacy.contacts \ Referencing(legacy, f) :
                    /\ c \in DOMAIN legacy'.contacts
                    /\ c \in Range(legacy'.m_contacts)
              /\ <<"DestroyProxies", f>> \in Range(legacy'.trace)
              /\ f \notin DOMAIN legacy'.fixtures
              /\ IF last'.arg.resetMassData
                 THEN MassDataRecomputed(legacy')
                 ELSE IsMassDataDirty(legacy')]_vars


-----------------------------------------------------------------------------
(* The goodbye scenario: a body, in a world with or without a destruction  *)
(* listener, gets fixtures, joints and a contact (one at a time); its      *)
(* fixtures are destroyed one by one or all at once, and in the end the    *)
(* body itself is destroyed.                                               *)

InitGoodbye ==
    /\ \E bd \in LegacyBodyDefs, listener \in BOOLEAN :
          /\ bd.type = "Dynamic"
          /\ legacy = LegacyWorld(bd, listener)
          /\ last = Call("CreateBody", 0, 0)
    /\ LegacyOthersIdle
    /\ ChainIdle

\* The body is still there.
Alive == last.op # "~Body"

\* World::CreateJoint with the body as one of the joint's bodies.
JointAppears ==
    /\ ~legacy.aborted
    /\ ~legacy.locked
    /\ Len(legacy.m_joints) < MaxJoints
    /\ LET joint == Len(legacy.m_joints) + 1
       IN  /\ legacy' = [Begin(legacy) EXCEPT !.m_joints = Append(@, joint)]
           /\ last' = Call("CreateJoint", 0, joint)
    /\ LegacyFrame

\* World::Destroy(Body*) between steps: the body's destructor runs.
DestroyBody ==
    /\ ~legacy.aborted
    /\ ~legacy.locked
    /\ legacy' = BodyDestructor(Begin(legacy))
    /\ last' = Call("~Body", 0, 0)
    /\ LegacyFrame

NextGoodbye ==
    \/ Alive /\ StepBegin
    \/ Alive /\ StepEnd
    \/ Alive /\ FixtureAppears
    \/ Alive /\ legacy.contacts = <<>> /\ ContactAppears
    \/ Alive /\ JointAppears
    \/ Alive /\ CallDestroyFixture
    \/ Alive /\ DoDestroyFixtures
    \/ Alive /\ DestroyBody

SpecGoodbye == InitGoodbye /\ [][NextGoodbye]_vars

\* Where in the trace of a call the event is.
Positions(trace, event) == {i \in DOMAIN trace : trace[i] = event}

\* The event happens exactly once in the trace, and before each of the
\* later events.
OnceAndBefore(trace, event, later) ==
    /\ Cardinality(Positions(trace, event)) = 1
    /\ \A i \in Positions(trace, event) :
          \A e \in later : \A j \in Positions(trace, e) : i < j

\* The fixtures and the joints that the call freed.
Freed(trace, event) == {trace[i][2] : i \in {j \in DOMAIN trace : trace[j][1] = event}}

\* The hook was invoked exactly once for each fixture and joint that the
\* call freed, before the fixture's proxies were destroyed and the storage
\* was released.
SaidGoodbyeToAllFreed(trace) ==
    /\ \A f \in Freed(trace, "Delete") :
          OnceAndBefore(trace, <<"SayGoodbye", f>>,
                        {<<"DestroyProxies", f>>, <<"Delete", f>>})
    /\ \A j \in Freed(trace, "Destroy(Joint)") :
          OnceAndBefore(trace, <<"SayGoodbye(Joint)", j>>, {<<"Destroy(Joint)", j>>})

\* The hook was not invoked at all.
SaidNoGoodbye(trace) ==
    \A i \in DOMAIN trace : trace[i][1] \notin {"SayGoodbye", "SayGoodbye(Joint)"}

\* C14 as stated: whenever a call frees a fixture or a joint - the body's
\* destruction, DestroyFixtures or an explicit DestroyFixture - and a
\* destruction listener is registered, the hook is invoked for it exactly
\* once, before its proxies are destroyed and its storage is released.
C14_GoodbyeForEveryFreed ==
    [][legacy.destructionListener => SaidGoodbyeToAllFreed(legacy'.trace)]_vars

\* C14 amended: whenever the body's destruction or DestroyFixtures frees a
\* fixture or a joint and a destruction listener is registered, the hook is
\* invoked for it exactly once, before its proxies are destroyed and its
\* storage is released; an explicit DestroyFixture frees the fixture without
\* invoking the hook.
C14_GoodbyeUnlessExplicit ==
    [][legacy.destructionListener =>
          IF last'.op = "DestroyFixture"
          THEN /\ SaidNoGoodbye(legacy'.trace)
               /\ ~legacy.locked => last'.arg.fixture \in Freed(legacy'.trace, "Delete")
          ELSE SaidGoodbyeToAllFreed(legacy'.trace)]_vars

\* A body with two fixtures and two joints has been destroyed in a world
\* with a destruction listener, and the hook was invoked for each of them.
C14_Witness ==
    /\ last.op = "~Body"
    /\ legacy.destructionListener
    /\ Cardinality(Freed(legacy.trace, "Delete")) = 2
    /\ Cardinality(Freed(legacy.trace, "Destroy(Joint)")) = 2
    /\ Cardinality(Freed(legacy.trace, "SayGoodbye")) = 2
    /\ Cardinality(Freed(legacy.trace, "SayGoodbye(Joint)")) = 2


-----------------------------------------------------------------------------
(* The contact scenario of the current engine: two bodies, each with a     *)
(* disk fixture at the origin, in a world that is stepped; a step brings   *)
(* the contact between them.  A body's awake state is changed through the  *)
(* body or through the contact.  Body::SetAwake, Body::UnsetAwake, the     *)
(* world's contact functions and the step are not part of the sources at   *)
(* hand; they follow the description of the engine: only a velocity-       *)
(* capable body can be awake, only a body that may sleep (or cannot move)  *)
(* can be asleep, and a contact is awake when one of its bodies is.        *)

\* Body::SetAwake
SetAwake(b) == IF IsSpeedable(b) THEN ResetUnderActiveTime(SetAwakeFlag(b)) ELSE b

\* Body::UnsetAwake
UnsetAwake(b) ==
    IF ~IsSpeedable(b) \/ IsSleepingAllowed(b)
    THEN [b EXCEPT !.m_flags = @ \ {e_awakeFlag},
                   !.m_underActiveTime = 0,
                   !.m_velocity = [linear |-> Vec2_zero, angular |-> 0]]
    ELSE b

\* IsAwake(world, contact)
IsAwakeContact(bs, c) == IsAwake(bs[c.bodyA]) \/ IsAwake(bs[c.bodyB])

\* SetAwake(world, contact) waking the contact's first body only.
SetAwakeContact_BodyAOnly(bs, c) == [bs EXCEPT ![c.bodyA] = SetAwake(@)]

\* SetAwake(world, contact)
SetAwakeContact(bs, c) ==
    [bs EXCEPT ![c.bodyA] = SetAwake(@), ![c.bodyB] = SetAwake(@)]

\* The bodies that share a contact with the body.
Neighbours(contacts, id) ==
    {other \in BodyIds \ {id} :
        \E i \in DOMAIN contacts :
            {contacts[i].bodyA, contacts[i].bodyB} = {id, other}}

\* The contacts a step adds: one for each pair of bodies that should
\* collide and has none yet.
NewContacts(contacts) ==
    IF /\ ShouldCollide("A", "B")
       /\ "B" \notin Neighbours(contacts, "A")
    THEN Append(contacts, [bodyA |-> "A", bodyB |-> "B"])
    ELSE contacts

\* The step wakes every velocity-capable body in contact with an awake body.
WakeNeighbours(bs, contacts) ==
    [id \in BodyIds |->
        IF \E other \in Neighbours(contacts, id) : IsAwake(bs[other])
        THEN SetAwake(bs[id]) ELSE bs[id]]

\* The sets of bodies a step can put to sleep: awake bodies that may sleep,
\* none of them with an awake neighbour that stays awake.
CanFallAsleep(bs, contacts) ==
    {S \in SUBSET {id \in BodyIds : IsAwake(bs[id]) /\ IsSleepingAllowed(bs[id])} :
        \A id \in S : \A other \in Neighbours(contacts, id) :
            IsAwake(bs[other]) => other \in S}

ContactBodyConfs ==
    {[DefaultBodyConf(type) EXCEPT !.allowSleep = allowSleep, !.awake = awake] :
        type \in BodyTypes, allowSleep \in BOOLEAN, awake \in BOOLEAN}

NoContacts == [m_contacts |-> <<>>]

InitContact ==
    /\ \E confs \in [BodyIds -> ContactBodyConfs] :
          bodies = [id \in BodyIds |-> NewBody(confs[id])]
    /\ joints = <<>>
    /\ world = NoContacts
    /\ last = NoCall
    /\ BodyIdle
    /\ LegacyIdle
    /\ ChainIdle

ContactFrame == UNCHANGED <<bodyVars, joints, legacyVars, chainVars>>

\* Step(world, conf)
DoStep ==
    /\ LET contacts == NewContacts(world.m_contacts)
           woken == WakeNeighbours(bodies, contacts)
       IN  /\ world' = [world EXCEPT !.m_contacts = contacts]
           /\ \E S \in CanFallAsleep(woken, contacts) :
                 bodies' = [id \in BodyIds |->
                               IF id \in S THEN UnsetAwake(woken[id]) ELSE woken[id]]
    /\ last' = Call("Step", 0, 0)
    /\ ContactFrame

\* SetAwake(world, body)
DoSetAwakeBody ==
    /\ \E id \in BodyIds :
          /\ bodies' = [bodies EXCEPT ![id] = SetAwake(@)]
          /\ last' = Call("SetAwake(Body)", id, 0)
    /\ UNCHANGED world
    /\ ContactFrame

\* UnsetAwake(world, body)
DoUnsetAwake ==
    /\ \E id \in BodyIds :
          /\ bodies' = [bodies EXCEPT ![id] = UnsetAwake(@)]
          /\ last' = Call("UnsetAwake", id, 0)
    /\ UNCHANGED world
    /\ ContactFrame

\* SetAwake(world, contact); the call is recorded with the bodies that were
\* asleep before it.
DoSetAwakeContact ==
    /\ \E c \in DOMAIN world.m_contacts :
          /\ bodies' = SetAwakeContact(bodies, world.m_contacts[c])
          /\ last' = Call("SetAwake(Contact)", c, {id \in BodyIds : ~IsAwake(bodies[id])})
    /\ UNCHANGED world
    /\ ContactFrame

NextContact ==
    \/ DoStep
    \/ DoSetAwakeBody
    \/ DoUnsetAwake
    \/ DoSetAwakeContact

SpecContact == InitContact /\ [][NextContact]_vars

\* No contact is awake while both of its bodies are asleep.
NoContactAwakeBetweenSleepers(bs, contacts) ==
    \A i \in DOMAIN contacts :
        (~IsAwake(bs[contacts[i].bodyA]) /\ ~IsAwake(bs[contacts[i].bodyB]))
            => ~IsAwakeContact(bs, contacts[i])

-----------------------------------------------------------------------------
(* The mass scenario: a body of the current engine and a body of the       *)
(* legacy engine are constructed from the same definition and get the same *)
(* fixtures, one after the other; the mass data of both is reset, their    *)
(* fixed-rotation status is set, and the type of the legacy body is set    *)
(* (when it does not spin: setting the type of a spinning body moves its   *)
(* center and with it its linear velocity, every time).                    *)

MassBodyDefs ==
    [type : BodyTypes,
     bullet : {FALSE},
     fixedRotation : BOOLEAN,
     allowSleep : {TRUE},
     awake : {TRUE},
     active : {TRUE},
     position : {Vec2_zero, <<Scale, 0>>},
     angle : {0},
     linearVelocity : {<<Scale, 0>>},
     angularVelocity : {0, 1},
     sleepTime : {0}]

\* The definition of the current engine that corresponds to a legacy one,
\* velocity and pose included.
AsMovingBodyConf(bd) ==
    [AsBodyConf(bd) EXCEPT
        !.pose = [location |-> bd.position, angle |-> bd.angle],
        !.linearVelocity = bd.linearVelocity,
        !.angularVelocity = bd.angularVelocity]

InitMass ==
    /\ \E bd \in MassBodyDefs :
          /\ body = NewBody(AsMovingBodyConf(bd))
          /\ legacy = LegacyWorld(bd, TRUE)
          /\ last = Call("CreateBody", 0, 0)
    /\ AdjIdle
    /\ WorldIdle
    /\ ChainIdle

MassFrame == UNCHANGED <<adjVars, worldVars, chainVars>>

\* The shape of the legacy engine for a disk.
AsLegacyShape(disk) == LegacyShape(disk, Fin(1))

\* A fixture is attached to both bodies.
MassAttach ==
    /\ Len(body.m_fixtures) < MaxFixtures
    /\ \E f \in Fixtures :
          /\ body' = Attach(body, f)
          /\ legacy' = CreateFixture(Begin(legacy), AsLegacyShape(f.shape),
                                     [DefaultFixtureDef EXCEPT !.density = Fin(f.density)],
                                     FALSE).s
          /\ last' = Call("CreateFixture", f, 0)
    /\ MassFrame

MassResetMassData ==
    /\ body' = ResetMassData(body)
    /\ legacy' = LegacyResetMassData(Begin(legacy))
    /\ last' = Call("ResetMassData", 0, 0)
    /\ MassFrame

\* SetFixedRotation is called on both bodies; the call is recorded with the
\* status the bodies had before it.
MassSetFixedRotation ==
    /\ \E flag \in BOOLEAN :
          /\ body' = SetFixedRotation(body, flag)
          /\ legacy' = LegacySetFixedRotation(Begin(legacy), flag)
          /\ last' = Call("SetFixedRotation", flag, IsFixedRotation(body))
    /\ MassFrame

MassSetType ==
    /\ legacy.m_velocity.angular = 0
    /\ \E type \in BodyTypes :
          /\ legacy' = SetType(Begin(legacy), type)
          /\ last' = Call("SetType", type, 0)
    /\ UNCHANGED body
    /\ MassFrame

NextMass ==
    \/ MassAttach
    \/ MassResetMassData
    \/ MassSetFixedRotation
    \/ MassSetType

SpecMass == InitMass /\ [][NextMass]_vars

\* The fixture objects of the legacy body, in list order.
LegacyFixtures(s) == [i \in 1 .. Len(s.m_fixtures) |-> s.fixtures[s.m_fixtures[i]]]

\* The sum of the masses of the fixtures.
RECURSIVE TotalMass(_)
TotalMass(fs) ==
    IF fs = <<>> THEN 0
    ELSE Head(fs).density * Head(fs).shape.unitMass + TotalMass(Tail(fs))

\* What C16 says of a body whose mass data was reset, given its inverse
\* rotational inertia and its fixtures.
MassDataIsReset(b, invI, fs) ==
    /\ ~IsMassDataDirty(b)
    /\ IF ~IsAccelerable(b)
       THEN /\ b.m_invMass = FracZero
            /\ invI = FracZero
            /\ b.m_sweep.pos0 = [linear |-> b.m_xf.p, angular |-> b.m_xf.q]
            /\ b.m_sweep.pos1 = [linear |-> b.m_xf.p, angular |-> b.m_xf.q]
            /\ b.m_sweep.localCenter = Vec2_zero
       ELSE /\ b.m_invMass[1] > 0
            /\ b.m_invMass[2] > 0
            /\ b.m_invMass = IF TotalMass(fs) > 0 THEN <<1, TotalMass(fs)>> ELSE <<1, 1>>

\* C16: after ResetMassData, in either engine, a body that is not
\* acceleration-capable has inverse mass 0, inverse rotational inertia 0 and
\* a sweep collapsed to its pose with zero local center; an acceleration-
\* capable body has a strictly positive inverse mass, 1/(total fixture mass)
\* when that total is positive and 1/(1 kg) when it is not, as for a body
\* with no fixtures; and the mass data is not marked dirty.
C16_ResetMassData ==
    last.op = "ResetMassData" =>
        /\ MassDataIsReset(body, body.m_invRotI, body.m_fixtures)
        /\ MassDataIsReset(legacy, legacy.m_invI, LegacyFixtures(legacy))

\* The mass data of a dynamic body with two fixtures of positive density has
\* been reset, and that of the legacy body, which has the same fixtures and
\* was given a type that is not acceleration-capable.
C16_Witness ==
    /\ last.op = "ResetMassData"
    /\ IsAccelerable(body)
    /\ Len(body.m_fixtures) = 2
    /\ \A i \in 1 .. 2 : body.m_fixtures[i].density > 0
    /\ body.m_invMass = <<1, TotalMass(body.m_fixtures)>>
    /\ ~IsAccelerable(legacy)
    /\ Len(legacy.m_fixtures) = 2
    /\ legacy.m_invMass = FracZero


\* The inertia shifted to the center of mass: the accumulated inertia minus
\* the mass times the squared distance of the local center.
ShiftedInertia(massData) ==
    LET mass == IF massData.mass > 0 THEN massData.mass ELSE 1
        localCenter == <<massData.center[1] \div mass, massData.center[2] \div mass>>
    IN  massData.I - mass * GetMagnitudeSquared(localCenter)

\* What C17 says of the inverse rotational inertia of a body whose mass
\* data was reset.
InvRotInertiaIsSafe(b, invI, massData) ==
    IsAccelerable(b) =>
        /\ invI = IF ~IsFixedRotation(b) /\ ShiftedInertia(massData) > 0
                  THEN <<1, ShiftedInertia(massData)>>
                  ELSE FracZero
        /\ invI[1] >= 0
        /\ invI[2] > 0

\* C17: after ResetMassData on an acceleration-capable body of either
\* engine, the inverse rotational inertia is the reciprocal of the inertia
\* shifted to the center of mass if fixed rotation is off and that shifted
\* inertia is positive, and 0 in every other case; it is never negative or
\* infinite.
C17_InvRotInertia ==
    last.op = "ResetMassData" =>
        /\ InvRotInertiaIsSafe(body, body.m_invRotI, ComputeMassData(body))
        /\ InvRotInertiaIsSafe(legacy, legacy.m_invI, LegacyComputeMassData(legacy))


\* The fixtures that contribute to the mass: those of positive density.
Contributing(fs) == SelectSeq(fs, LAMBDA f : f.density > 0)

\* The sum of the fixtures' centers, each weighted by the fixture's mass.
RECURSIVE WeightedCenters(_)
WeightedCenters(fs) ==
    IF fs = <<>> THEN Vec2_zero
    ELSE VAdd(VMul(Head(fs).shape.center, Head(fs).density * Head(fs).shape.unitMass),
              WeightedCenters(Tail(fs)))

\* The sum of the fixtures' rotational inertias.
RECURSIVE TotalInertia(_)
TotalInertia(fs) ==
    IF fs = <<>> THEN 0
    ELSE Head(fs).density * Head(fs).shape.unitI + TotalInertia(Tail(fs))

NoMassData == [mass |-> 0, center |-> Vec2_zero, I |-> 0]

\* What C18 says of the accumulation over the fixtures.
CountsContributing(fs, massData) ==
    /\ massData.mass = TotalMass(Contributing(fs))
    /\ massData.I = TotalInertia(Contributing(fs))
    /\ massData = ComputeMassDataFrom(Contributing(fs), NoMassData)

\* The local center is the mass-weighted average of the centers of the
\* contributing fixtures.
CenterIsWeightedAverage(b, fs) ==
    TotalMass(Contributing(fs)) > 0 =>
        VMul(b.m_sweep.localCenter, TotalMass(Contributing(fs)))
            = WeightedCenters(Contributing(fs))

\* C18 as stated: the accumulation over a body's fixtures counts exactly
\* those of positive density - its mass is the sum of their masses, and
\* fixtures of density zero change neither mass, center nor inertia - and
\* after ResetMassData the body's local center is the mass-weighted average
\* of the centers of the contributing fixtures.
C18_MassAccumulation ==
    /\ CountsContributing(body.m_fixtures, ComputeMassData(body))
    /\ CountsContributing(LegacyFixtures(legacy), LegacyComputeMassData(legacy))
    /\ last.op = "ResetMassData" =>
          /\ CenterIsWeightedAverage(body, body.m_fixtures)
          /\ CenterIsWeightedAverage(legacy, LegacyFixtures(legacy))

\* C18 amended: the same accumulation, and after ResetMassData on an
\* acceleration-capable body the local center is the mass-weighted average
\* of the centers of the contributing fixtures.
C18_MassAccumulationOfAccelerable ==
    /\ CountsContributing(body.m_fixtures, ComputeMassData(body))
    /\ CountsContributing(LegacyFixtures(legacy), LegacyComputeMassData(legacy))
    /\ last.op = "ResetMassData" =>
          /\ IsAccelerable(body) => CenterIsWeightedAverage(body, body.m_fixtures)
          /\ IsAccelerable(legacy) => CenterIsWeightedAverage(legacy, LegacyFixtures(legacy))

\* The mass data of a dynamic body with a fixture of mass 1 at (1, 0) and a
\* fixture of mass 2 at (0, 1) has been reset: its local center is
\* (1/3, 2/3).
C18_Witness ==
    /\ last.op = "ResetMassData"
    /\ IsAccelerable(body)
    /\ IsAccelerable(legacy)
    /\ ComputeMassData(body).mass = 3
    /\ body.m_sweep.localCenter = <<Scale \div 3, (2 * Scale) \div 3>>
    /\ legacy.m_sweep.localCenter = body.m_sweep.localCenter


\* The flags other than fixed-rotation and mass-data-dirty.
OtherFlags(b) == b.m_flags \ {e_fixedRotationFlag, e_massDataDirtyFlag}

\* What C19 says of a SetFixedRotation(flag) call that took the body from b
\* to c, given the inverse rotational inertia after it and whether the mass
\* data after it is what ResetMassData computes.
FixedRotationIsSet(b, c, flag, invI, recomputed) ==
    /\ IsFixedRotation(c) = flag
    /\ c.m_velocity.angular = 0
    /\ recomputed
    /\ ~IsMassDataDirty(c)
    /\ flag => invI = FracZero
    /\ c.m_velocity.linear = b.m_velocity.linear
    /\ OtherFlags(c) = OtherFlags(b)

\* C19: SetFixedRotation(flag), in either engine, changes nothing when flag
\* is the body's fixed-rotation status already; otherwise the status
\* becomes flag, the angular velocity becomes zero, the mass data is
\* recomputed - with inverse rotational inertia 0 if fixed rotation is now
\* set - and the linear velocity and every flag other than fixed-rotation
\* and mass-data-dirty stay as they were.
C19_SetFixedRotation ==
    [][last'.op = "SetFixedRotation" =>
          /\ IF IsFixedRotation(body) = last'.arg
             THEN body' = body
             ELSE FixedRotationIsSet(body, body', last'.arg, body'.m_invRotI,
                                     ResetMassData(body') = body')
          /\ IF IsFixedRotation(legacy) = last'.arg
             THEN legacy' = Begin(legacy)
             ELSE FixedRotationIsSet(legacy, legacy', last'.arg, legacy'.m_invI,
                                     LegacyResetMassData(legacy') = legacy')]_vars

\* Fixed rotation has been set on a velocity-capable body that has a fixture
\* of positive density off its origin: the body does not spin, its local
\* center is that of the fixture and its inverse rotational inertia is 0.
C19_Witness ==
    /\ last.op = "SetFixedRotation"
    /\ last.arg
    /\ ~last.res
    /\ IsSpeedable(body)
    /\ body.m_fixtures # <<>>
    /\ body.m_sweep.localCenter # Vec2_zero
    /\ body.m_velocity.angular = 0
    /\ body.m_invRotI = FracZero
    /\ IsFixedRotation(legacy)
    /\ legacy.m_invI = FracZero


\* The larger of the range before a CreateBody call and one past the
\* identifier the call returned.
RangeAfterCreate(range, id) == IF id + 1 > range THEN id + 1 ELSE range

\* C20: over any sequence of CreateBody and Destroy calls GetBodyRange is one
\* past the highest identifier ever allocated: it is 0 before any call,
\* CreateBody returns an identifier below the range it leaves, which is the
\* larger of the range before and one past that identifier, and no call
\* makes the range smaller, Destroy least of all, so that the range can
\* exceed the number of live bodies.
C20_BodyRange ==
    [][/\ GetBodyRange(NoWorld) = 0
       /\ GetBodyRange(world') >= GetBodyRange(world)
       /\ last'.op = "CreateBody" =>
             /\ last'.res.error = "none"
             /\ last'.res.ret >= 0
             /\ last'.res.ret < GetBodyRange(world')
             /\ GetBodyRange(world') = RangeAfterCreate(GetBodyRange(world), last'.res.ret)
       /\ last'.op # "CreateBody" => GetBodyRange(world') = GetBodyRange(world)]_vars

\* A body has been destroyed and the range is still one past the highest
\* identifier issued before, which is more than the number of live bodies.
C20_Witness ==
    /\ last.op = "Destroy"
    /\ last.res.error = "none"
    /\ GetBodyRange(world) = MaxBodies
    /\ GetBodyRange(world) > Cardinality(world.issued)


-----------------------------------------------------------------------------
(* The bullet scenario: the body type scenario for a legacy body whose     *)
(* definition asks for a bullet.                                           *)

InitBullet ==
    /\ \E bd \in TypeBodyDefs :
          /\ bd.bullet
          /\ legacy = LegacyWorld(bd, TRUE)
          /\ body = NewBody(AsBodyConf(bd))
          /\ last = Call("CreateBody", bd, bd.type)
    /\ AdjIdle
    /\ WorldIdle
    /\ ChainIdle

SpecBullet == InitBullet /\ [][NextType]_vars

\* C28: a legacy body created with bullet = true is impenetrable after
\* construction and after any SetType calls, whatever type it ends in.
C28_BulletStaysImpenetrable == IsImpenetrable(legacy)


-----------------------------------------------------------------------------
(* The activation scenario: the legacy scenario with SetActive and         *)
(* SetFixedRotation, which are called at any time as well.                 *)

\* for (auto&& fixture: GetFixtures()) fixture->CreateProxies(allocator, broadPhase, xf)
CreateAllProxies(s, xf) ==
    [s EXCEPT !.fixtures =
        [id \in DOMAIN s.fixtures |->
            IF id \in Range(s.m_fixtures) THEN CreateProxies(s.fixtures[id], xf)
            ELSE s.fixtures[id]]]

\* for (auto&& fixture: GetFixtures()) fixture->DestroyProxies(allocator, broadPhase)
RECURSIVE DestroyAllProxies(_, _)
DestroyAllProxies(s, list) ==
    IF list = <<>> THEN s
    ELSE DestroyAllProxies(DestroyProxies(s, Head(list)), Tail(list))

\* Body::SetActive with assertions compiled out.
SetActive(s, flag) ==
    IF flag = IsActive(s) THEN s
    ELSE IF flag
    THEN CreateAllProxies([s EXCEPT !.m_flags = @ \cup {e_activeFlag}], s.m_xf)
    ELSE LET s1 == [s EXCEPT !.m_flags = @ \ {e_activeFlag}]
         IN  InternalDestroyContacts(DestroyAllProxies(s1, s1.m_fixtures))

\* The assert of SetActive fails in a locked world.
SetActiveOutcomes(s, flag) ==
    {SetActive(s, flag)} \cup IF s.locked THEN {Abort(s)} ELSE {}

DoSetActive ==
    /\ ~legacy.aborted
    /\ \E flag \in BOOLEAN :
          /\ legacy' \in SetActiveOutcomes(Begin(legacy), flag)
          /\ last' = Returned(legacy', Call("SetActive", flag, 0))
    /\ LegacyFrame

CallSetFixedRotation ==
    /\ ~legacy.aborted
    /\ \E flag \in BOOLEAN :
          /\ legacy' = LegacySetFixedRotation(Begin(legacy), flag)
          /\ last' = Call("SetFixedRotation", flag, 0)
    /\ LegacyFrame

NextActive ==
    \/ NextLegacy
    \/ DoSetActive
    \/ CallSetFixedRotation

SpecActive == InitLegacy /\ [][NextActive]_vars

MemberOps == LockedOps \cup {"SetActive", "SetFixedRotation", "abort"}

ProxiesOf(s) == [id \in DOMAIN s.fixtures |-> s.fixtures[id].proxies]

\* C29: while the world is locked, a call of a member function of the
\* legacy body, SetActive included, leaves the body's active flag, its
\* contact list, the contacts and its fixtures' proxies as they were.
C29_LockedKeepsProxiesAndContacts ==
    [][(legacy.locked /\ last'.op \in MemberOps) =>
          /\ IsActive(legacy') = IsActive(legacy)
          /\ legacy'.m_contacts = legacy.m_contacts
          /\ legacy'.contacts = legacy.contacts
          /\ ProxiesOf(legacy') = ProxiesOf(legacy)]_vars


-----------------------------------------------------------------------------
(* Rational numbers.  The joint solver divides by lengths and by sums of   *)
(* inverse masses, so its quantities are kept as fractions <<n, d>> in     *)
(* lowest terms with d > 0, in SI units.                                   *)

Rat(n, d) ==
    LET g == GCD(Abs(n), Abs(d))
        s == IF d < 0 THEN -1 ELSE 1
    IN  <<(s * n) \div g, (s * d) \div g>>

RZero == <<0, 1>>

ROne == <<1, 1>>

RNeg(a) == <<-a[1], a[2]>>

RAdd(a, b) == Rat(a[1] * b[2] + b[1] * a[2], a[2] * b[2])

RSub(a, b) == RAdd(a, RNeg(b))

RMul(a, b) == Rat(a[1] * b[1], a[2] * b[2])

\* a / b for b # 0
RDiv(a, b) == Rat(a[1] * b[2], a[2] * b[1])

RLT(a, b) == a[1] * b[2] < b[1] * a[2]

RLE(a, b) == a[1] * b[2] <= b[1] * a[2]

\* Min(a, b)
RMin(a, b) == IF RLT(a, b) THEN a ELSE b

\* Clamp(a, low, high)
RClamp(a, low, high) == IF RLT(a, low) THEN low ELSE IF RLT(high, a) THEN high ELSE a

\* Square(a)
RSquare(a) == RMul(a, a)

\* The square root of a number that is the square of a fraction.
RSqrt(a) ==
    <<CHOOSE k \in 0 .. a[1] : k * k = a[1], CHOOSE k \in 1 .. a[2] : k * k = a[2]>>

RVZero == <<RZero, RZero>>

RVAdd(a, b) == <<RAdd(a[1], b[1]), RAdd(a[2], b[2])>>

RVSub(a, b) == <<RSub(a[1], b[1]), RSub(a[2], b[2])>>

\* vector * scalar
RVMul(a, k) == <<RMul(a[1], k), RMul(a[2], k)>>

\* Dot(a, b)
RDot(a, b) == RAdd(RMul(a[1], b[1]), RMul(a[2], b[2]))

\* Cross(a, b)
RCross(a, b) == RSub(RMul(a[1], b[2]), RMul(a[2], b[1]))

\* GetRevPerpendicular of a vector of fractions.
RRevPerpendicular(v) == <<RNeg(v[2]), v[1]>>

\* Rotate(vector, unit vector): the vector turned by the unit vector's angle.
RRotate(v, q) ==
    <<RSub(RMul(q[1], v[1]), RMul(q[2], v[2])), RAdd(RMul(q[2], v[1]), RMul(q[1], v[2]))>>

\* An angle is a number of quarter turns plus a number of radians.
Quarters(q) == [quarters |-> q, radians |-> RZero]

AngleAdd(angle, radians) == [angle EXCEPT !.radians = RAdd(@, radians)]

\* UnitVec2{angle}: cosine and sine of the angle, exact for quarter turns.
UnitVec2(angle) ==
    CASE angle.quarters % 4 = 0 -> <<ROne, RZero>>
      [] angle.quarters % 4 = 1 -> <<RZero, ROne>>
      [] angle.quarters % 4 = 2 -> <<RNeg(ROne), RZero>>
      [] OTHER                  -> <<RZero, RNeg(ROne)>>

\* GetUnitVector(value, magnitude): the magnitude of the vector and the
\* vector divided by it; magnitude 0 and the zero direction for the zero
\* vector.
GetUnitVector(value) ==
    LET magnitude == RSqrt(RDot(value, value))
    IN  IF magnitude = RZero THEN [magnitude |-> RZero, u |-> RVZero]
        ELSE [magnitude |-> magnitude,
              u |-> <<RDiv(value[1], magnitude), RDiv(value[2], magnitude)>>]


-----------------------------------------------------------------------------
(* The rope joint (src/Box2D/Box2D/Dynamics/Joints/RopeJoint.cpp) and the  *)
(* two body constraints it solves for.                                     *)

e_inactiveLimit == "e_inactiveLimit"

e_atUpperLimit == "e_atUpperLimit"

\* RopeJoint::RopeJoint(const RopeJointDef&): the anchors and the maximum
\* length come from the definition; the solver's fields start at zero and
\* the limit state inactive.
RopeJoint(def) ==
    [m_localAnchorA |-> def.localAnchorA,
     m_localAnchorB |-> def.localAnchorB,
     m_maxLength |-> def.maxLength,
     m_length |-> RZero,
     m_impulse |-> RZero,
     m_rA |-> RVZero,
     m_rB |-> RVZero,
     m_u |-> RVZero,
     m_mass |-> RZero,
     m_state |-> e_inactiveLimit]

\* What a solver call leaves: the joint, the two body constraints and the
\* value returned.
Solved(joint, bodyA, bodyB, ret) ==
    [joint |-> joint, A |-> bodyA, B |-> bodyB, ret |-> ret]

\* velA -= Velocity{invMassA * P, invRotInertiaA * Cross(rA, P)}
VelocityMinus(b, P, r) ==
    [b EXCEPT !.velocity.linear = RVSub(@, RVMul(P, b.invMass)),
              !.velocity.angular = RSub(@, RMul(b.invRotInertia, RCross(r, P)))]

\* velB += Velocity{invMassB * P, invRotInertiaB * Cross(rB, P)}
VelocityPlus(b, P, r) ==
    [b EXCEPT !.velocity.linear = RVAdd(@, RVMul(P, b.invMass)),
              !.velocity.angular = RAdd(@, RMul(b.invRotInertia, RCross(r, P)))]

\* The position of body A corrected the same way as that of body B.
PositionMinus_SameWay(b, P, r) ==
    [b EXCEPT !.position.linear = RVAdd(@, RVMul(P, b.invMass)),
              !.position.angular =
                  AngleAdd(@, RNeg(RMul(b.invRotInertia, RCross(r, P))))]

\* posA -= Position{invMassA * linImpulse, invRotInertiaA * Cross(rA, linImpulse)}
PositionMinus(b, P, r) ==
    [b EXCEPT !.position.linear = RVSub(@, RVMul(P, b.invMass)),
              !.position.angular =
                  AngleAdd(@, RNeg(RMul(b.invRotInertia, RCross(r, P))))]

\* posB += Position{invMassB * linImpulse, invRotInertiaB * Cross(rB, linImpulse)}
PositionPlus(b, P, r) ==
    [b EXCEPT !.position.linear = RVAdd(@, RVMul(P, b.invMass)),
              !.position.angular = AngleAdd(@, RMul(b.invRotInertia, RCross(r, P)))]

\* Rotate(localAnchor - localCenter, UnitVec2{angle})
AnchorOffset(localAnchor, b) ==
    RRotate(RVSub(localAnchor, b.localCenter), UnitVec2(b.position.angular))

\* RopeJoint::InitVelocityConstraints taking the rope at its maximum length
\* for a rope at its upper limit.
InitVelocityConstraints_LimitAtMaxLength(joint, bodyA, bodyB, step, conf) ==
    LET rA == AnchorOffset(joint.m_localAnchorA, bodyA)
        rB == AnchorOffset(joint.m_localAnchorB, bodyB)
        posDelta == RVSub(RVAdd(bodyB.position.linear, rB), RVAdd(bodyA.position.linear, rA))
        uv == GetUnitVector(posDelta)
        length == uv.magnitude
        C == RSub(length, joint.m_maxLength)
        j1 == [joint EXCEPT !.m_rA = rA,
                            !.m_rB = rB,
                            !.m_length = length,
                            !.m_state = IF RLE(RZero, C) THEN e_atUpperLimit
                                        ELSE e_inactiveLimit]
    IN  IF ~RLT(conf.linearSlop, length)
        THEN Solved([j1 EXCEPT !.m_u = RVZero, !.m_mass = RZero, !.m_impulse = RZero],
                    bodyA, bodyB, 0)
        ELSE LET crA == RCross(rA, uv.u)
                 crB == RCross(rB, uv.u)
                 invRotMassA == RMul(bodyA.invRotInertia, RSquare(crA))
                 invRotMassB == RMul(bodyB.invRotInertia, RSquare(crB))
                 invMass == RAdd(RAdd(bodyA.invMass, bodyB.invMass),
                                 RAdd(invRotMassA, invRotMassB))
                 j2 == [j1 EXCEPT !.m_u = uv.u,
                                  !.m_mass = IF invMass # RZero THEN RDiv(ROne, invMass)
                                             ELSE RZero]
             IN  IF step.doWarmStart
                 THEN LET j3 == [j2 EXCEPT !.m_impulse = RMul(@, step.dtRatio)]
                          P == RVMul(j3.m_u, j3.m_impulse)
                      IN  Solved(j3, VelocityMinus(bodyA, P, rA), VelocityPlus(bodyB, P, rB), 0)
                 ELSE Solved([j2 EXCEPT !.m_impulse = RZero], bodyA, bodyB, 0)

\* RopeJoint::InitVelocityConstraints
InitVelocityConstraints(joint, bodyA, bodyB, step, conf) ==
    LET rA == AnchorOffset(joint.m_localAnchorA, bodyA)
        rB == AnchorOffset(joint.m_localAnchorB, bodyB)
        posDelta == RVSub(RVAdd(bodyB.position.linear, rB), RVAdd(bodyA.position.linear, rA))
        uv == GetUnitVector(posDelta)
        length == uv.magnitude
        C == RSub(length, joint.m_maxLength)
        j1 == [joint EXCEPT !.m_rA = rA,
                            !.m_rB = rB,
                            !.m_length = length,
                            !.m_state = IF RLT(RZero, C) THEN e_atUpperLimit
                                        ELSE e_inactiveLimit]
    IN  IF ~RLT(conf.linearSlop, length)
        THEN Solved([j1 EXCEPT !.m_u = RVZero, !.m_mass = RZero, !.m_impulse = RZero],
                    bodyA, bodyB, 0)
        ELSE LET crA == RCross(rA, uv.u)
                 crB == RCross(rB, uv.u)
                 invRotMassA == RMul(bodyA.invRotInertia, RSquare(crA))
                 invRotMassB == RMul(bodyB.invRotInertia, RSquare(crB))
                 invMass == RAdd(RAdd(bodyA.invMass, bodyB.invMass),
                                 RAdd(invRotMassA, invRotMassB))
                 j2 == [j1 EXCEPT !.m_u = uv.u,
                                  !.m_mass = IF invMass # RZero THEN RDiv(ROne, invMass)
                                             ELSE RZero]
             IN  IF step.doWarmStart
                 THEN LET j3 == [j2 EXCEPT !.m_impulse = RMul(@, step.dtRatio)]
                          P == RVMul(j3.m_u, j3.m_impulse)
                      IN  Solved(j3, VelocityMinus(bodyA, P, rA), VelocityPlus(bodyB, P, rB), 0)
                 ELSE Solved([j2 EXCEPT !.m_impulse = RZero], bodyA, bodyB, 0)

\* Cdot with the bias invDt * C added whatever the sign of C.
Cdot_AlwaysBiased(joint, bodyA, bodyB, step) ==
    LET vpA == RVAdd(bodyA.velocity.linear,
                     RVMul(RRevPerpendicular(joint.m_rA), bodyA.velocity.angular))
        vpB == RVAdd(bodyB.velocity.linear,
                     RVMul(RRevPerpendicular(joint.m_rB), bodyB.velocity.angular))
        C == RSub(joint.m_length, joint.m_maxLength)
    IN  RAdd(RDot(joint.m_u, RVSub(vpB, vpA)), RMul(step.invTime, C))

\* Cdot of SolveVelocityConstraints: the anchors' relative velocity along
\* the rope, plus the bias invDt * C when C < 0.
Cdot(joint, bodyA, bodyB, step) ==
    LET vpA == RVAdd(bodyA.velocity.linear,
                     RVMul(RRevPerpendicular(joint.m_rA), bodyA.velocity.angular))
        vpB == RVAdd(bodyB.velocity.linear,
                     RVMul(RRevPerpendicular(joint.m_rB), bodyB.velocity.angular))
        C == RSub(joint.m_length, joint.m_maxLength)
    IN  RAdd(RDot(joint.m_u, RVSub(vpB, vpA)),
             IF RLT(C, RZero) THEN RMul(step.invTime, C) ELSE RZero)

\* RopeJoint::SolveVelocityConstraints accumulating the raw impulse as it is.
SolveVelocityConstraints_Unclamped(joint, bodyA, bodyB, step) ==
    LET raw == RNeg(RMul(joint.m_mass, Cdot(joint, bodyA, bodyB, step)))
        oldImpulse == joint.m_impulse
        j1 == [joint EXCEPT !.m_impulse = RAdd(@, raw)]
        impulse == RSub(j1.m_impulse, oldImpulse)
        P == RVMul(j1.m_u, impulse)
    IN  Solved(j1, VelocityMinus(bodyA, P, j1.m_rA), VelocityPlus(bodyB, P, j1.m_rB), impulse)

\* RopeJoint::SolveVelocityConstraints
SolveVelocityConstraints(joint, bodyA, bodyB, step) ==
    LET raw == RNeg(RMul(joint.m_mass, Cdot(joint, bodyA, bodyB, step)))
        oldImpulse == joint.m_impulse
        j1 == [joint EXCEPT !.m_impulse = RMin(RZero, RAdd(@, raw))]
        impulse == RSub(j1.m_impulse, oldImpulse)
        P == RVMul(j1.m_u, impulse)
    IN  Solved(j1, VelocityMinus(bodyA, P, j1.m_rA), VelocityPlus(bodyB, P, j1.m_rB), impulse)

\* RopeJoint::SolvePositionConstraints correcting the whole excess at once.
SolvePositionConstraints_NoMaxCorrection(joint, bodyA, bodyB, conf) ==
    LET rA == AnchorOffset(joint.m_localAnchorA, bodyA)
        rB == AnchorOffset(joint.m_localAnchorB, bodyB)
        posDelta == RVSub(RVAdd(bodyB.position.linear, rB), RVAdd(bodyA.position.linear, rA))
        uv == GetUnitVector(posDelta)
        length == uv.magnitude
        C == RClamp(RSub(length, joint.m_maxLength), RZero, RSub(length, joint.m_maxLength))
        impulse == RNeg(RMul(joint.m_mass, C))
        linImpulse == RVMul(uv.u, impulse)
    IN  Solved(joint, PositionMinus(bodyA, linImpulse, rA), PositionPlus(bodyB, linImpulse, rB),
               RLT(RSub(length, joint.m_maxLength), conf.linearSlop))

\* RopeJoint::SolvePositionConstraints
SolvePositionConstraints(joint, bodyA, bodyB, conf) ==
    LET rA == AnchorOffset(joint.m_localAnchorA, bodyA)
        rB == AnchorOffset(joint.m_localAnchorB, bodyB)
        posDelta == RVSub(RVAdd(bodyB.position.linear, rB), RVAdd(bodyA.position.linear, rA))
        uv == GetUnitVector(posDelta)
        length == uv.magnitude
        C == RClamp(RSub(length, joint.m_maxLength), RZero, conf.maxLinearCorrection)
        impulse == RNeg(RMul(joint.m_mass, C))
        linImpulse == RVMul(uv.u, impulse)
    IN  Solved(joint, PositionMinus(bodyA, linImpulse, rA), PositionPlus(bodyB, linImpulse, rB),
               RLT(RSub(length, joint.m_maxLength), conf.linearSlop))


-----------------------------------------------------------------------------
(* The rope scenario: a rope joint is constructed between two bodies, and  *)
(* the solver calls its three functions in any order, with any step        *)
(* configuration.  The bodies' constraints are in `bodies`, the joint is   *)
(* the one element of `joints`.  The result field of the last call carries *)
(* the value returned and the number of calls made so far.                 *)

\* The solver makes at most MaxSolverCalls calls.
MaxSolverCalls == 4

\* A body constraint: a body's inverse mass and inverse rotational inertia,
\* its local center, and the position and velocity being solved for.
BodyConstraint(invMass, invRotInertia, linear, quarters, linearVelocity, angularVelocity) ==
    [invMass |-> invMass,
     invRotInertia |-> invRotInertia,
     localCenter |-> RVZero,
     position |-> [linear |-> linear, angular |-> Quarters(quarters)],
     velocity |-> [linear |-> linearVelocity, angular |-> angularVelocity]]

\* Inverse mass and inverse rotational inertia of a body that cannot be
\* accelerated, of a light body and of a heavy body that cannot rotate.
Unmovable == <<RZero, RZero>>

Light == <<ROne, ROne>>

Heavy == <<Rat(1, 2), RZero>>

\* The two bodies of the joint.
BodyPairs == {<<Unmovable, Unmovable>>, <<Unmovable, Light>>, <<Light, Light>>, <<Light, Heavy>>}

RV(x, y) == <<Rat(x, 1), Rat(y, 1)>>

\* Where body B is and how it is turned.  With body A at (-1, 0) and the
\* default anchors the rope is 4 m long along the x axis, with B's anchor
\* offset along it or across it; 4 m long along the y axis; 0.05 m long;
\* and of length 0.
PlacementsB ==
    {<<RV(1, 0), 0>>, <<RV(2, -1), 1>>, <<RV(-2, 3), 1>>,
     <<<<Rat(-59, 20), RZero>>, 0>>, <<RV(-3, 0), 0>>}

\* Body B's linear and angular velocity; body A is at rest.
VelocitiesB == {<<RVZero, RZero>>, <<RV(1, 0), RZero>>, <<RV(-1, 0), RZero>>, <<RVZero, ROne>>}

BodyA(k) == BodyConstraint(k[1], k[2], RV(-1, 0), 0, RVZero, RZero)

BodyB(k, p, v) == BodyConstraint(k[1], k[2], p[1], p[2], v[1], v[2])

\* RopeJointDef: the default anchors, and a maximum length.
RopeJointDefs ==
    [localAnchorA : {RV(-1, 0)}, localAnchorB : {RV(1, 0)},
     maxLength : {RZero, Rat(4, 1), Rat(5, 1)}]

\* StepConf
StepConf(doWarmStart, dtRatio) ==
    [doWarmStart |-> doWarmStart, dtRatio |-> dtRatio, invTime |-> Rat(2, 1)]

\* The step configurations InitVelocityConstraints is called with: the
\* time step unchanged without warm starting, and with warm starting after
\* any change of the time step.
StepConfs == {StepConf(FALSE, ROne)} \cup {StepConf(TRUE, r) : r \in {RZero, ROne, Rat(2, 1)}}

\* ConstraintSolverConf: linear slop 0.1 m, maximum linear correction 0.2 m.
SolverConf == [linearSlop |-> Rat(1, 10), maxLinearCorrection |-> Rat(1, 5)]

IsSquare(n) == \E k \in 0 .. n : k * k = n

\* The separation of the joint's anchors.
AnchorDelta(joint, bodyA, bodyB) ==
    RVSub(RVAdd(bodyB.position.linear, AnchorOffset(joint.m_localAnchorB, bodyB)),
          RVAdd(bodyA.position.linear, AnchorOffset(joint.m_localAnchorA, bodyA)))

\* Whether the model's arithmetic is exact for the state: the angles are
\* quarter turns and the anchor separation is a fraction.
IsExact(joint, bodyA, bodyB) ==
    /\ bodyA.position.angular.radians = RZero
    /\ bodyB.position.angular.radians = RZero
    /\ LET d == AnchorDelta(joint, bodyA, bodyB)
           m == RDot(d, d)
       IN  IsSquare(m[1]) /\ IsSquare(m[2])

rope == joints[1]

InitRope ==
    /\ \E def \in RopeJointDefs, k \in BodyPairs, p \in PlacementsB, v \in VelocitiesB :
          /\ joints = <<RopeJoint(def)>>
          /\ bodies = [A |-> BodyA(k[1]), B |-> BodyB(k[2], p, v)]
          /\ last = Call("RopeJoint", def, [ret |-> 0, calls |-> 0])
    /\ BodyIdle
    /\ LegacyIdle
    /\ WorldIdle
    /\ ChainIdle

RopeFrame == UNCHANGED <<bodyVars, legacyVars, worldVars, chainVars>>

\* A solver call that left r.
RopeCall(op, arg, r) ==
    /\ last.res.calls < MaxSolverCalls
    /\ IsExact(rope, bodies.A, bodies.B)
    /\ joints' = <<r.joint>>
    /\ bodies' = [A |-> r.A, B |-> r.B]
    /\ last' = Call(op, arg, [ret |-> r.ret, calls |-> last.res.calls + 1])
    /\ RopeFrame

DoInitVelocityConstraints ==
    \E step \in StepConfs :
        \E r \in {InitVelocityConstraints(rope, bodies.A, bodies.B, step, SolverConf)} :
            RopeCall("InitVelocityConstraints", step, r)

DoSolveVelocityConstraints ==
    \E step \in {StepConf(FALSE, ROne)} :
        \E r \in {SolveVelocityConstraints(rope, bodies.A, bodies.B, step)} :
            RopeCall("SolveVelocityConstraints", step, r)

DoSolvePositionConstraints ==
    \E r \in {SolvePositionConstraints(rope, bodies.A, bodies.B, SolverConf)} :
        RopeCall("SolvePositionConstraints", SolverConf, r)

NextRope ==
    \/ DoInitVelocityConstraints
    \/ DoSolveVelocityConstraints
    \/ DoSolvePositionConstraints

SpecRope == InitRope /\ [][NextRope]_vars


-----------------------------------------------------------------------------
(* Properties of the rope scenario. *)

\* The change of a body's velocity over a step.
VelocityChange(b, c) ==
    [linear |-> RVSub(c.velocity.linear, b.velocity.linear),
     angular |-> RSub(c.velocity.angular, b.velocity.angular)]

\* The change of velocity that the impulse P at offset r gives a body.
VelocityFrom(b, P, r) ==
    [linear |-> RVMul(P, b.invMass), angular |-> RMul(b.invRotInertia, RCross(r, P))]

Opposite(v) == [linear |-> <<RNeg(v.linear[1]), RNeg(v.linear[2])>>, angular |-> RNeg(v.angular)]

\* C21: after any InitVelocityConstraints and SolveVelocityConstraints calls,
\* with warm starting on or off and a non-negative dtRatio, the accumulated
\* impulse is <= 0; and the increment a SolveVelocityConstraints call
\* returns, which is the one it applies to the two bodies along the rope
\* direction, is the new accumulated impulse minus the old one.
C21_ImpulseNeverPushes ==
    [][/\ RLE(rope.m_impulse, RZero)
       /\ RLE(rope'.m_impulse, RZero)
       /\ last'.op = "SolveVelocityConstraints" =>
             LET increment == RSub(rope'.m_impulse, rope.m_impulse)
                 P == RVMul(rope.m_u, increment)
             IN  /\ last'.res.ret = increment
                 /\ VelocityChange(bodies.A, bodies'.A)
                        = Opposite(VelocityFrom(bodies.A, P, rope.m_rA))
                 /\ VelocityChange(bodies.B, bodies'.B)
                        = VelocityFrom(bodies.B, P, rope.m_rB)]_vars

\* SolveVelocityConstraints has taken back negative accumulated impulse
\* that warm starting had applied again: it returned a positive increment,
\* and the accumulated impulse is not above 0.
C21_Witness ==
    /\ last.op = "SolveVelocityConstraints"
    /\ RLT(RZero, last.res.ret)
    /\ RLE(rope.m_impulse, RZero)
    /\ rope.m_mass # RZero


\* The distance between the joint's two anchors.
Separation(joint, bodyA, bodyB) == GetUnitVector(AnchorDelta(joint, bodyA, bodyB)).magnitude

\* C23: a newly constructed joint is inactive; InitVelocityConstraints sets
\* the limit state to at-upper-limit exactly when the anchor separation
\* exceeds maxLength and to inactive otherwise; when the separation is
\* <= linearSlop it zeroes the direction and the effective mass, resets the
\* accumulated impulse to 0 and leaves both bodies' velocities unchanged;
\* and without warm starting the accumulated impulse is 0 after the call.
C23_InitVelocityConstraints ==
    [][/\ last.op = "RopeJoint" => rope.m_state = e_inactiveLimit
       /\ last'.op = "InitVelocityConstraints" =>
             LET length == Separation(rope, bodies.A, bodies.B)
             IN  /\ rope'.m_state = IF RLT(rope.m_maxLength, length) THEN e_atUpperLimit
                                    ELSE e_inactiveLimit
                 /\ RLE(length, SolverConf.linearSlop) =>
                       /\ rope'.m_u = RVZero
                       /\ rope'.m_mass = RZero
                       /\ rope'.m_impulse = RZero
                       /\ bodies' = bodies
                 /\ ~last'.arg.doWarmStart => rope'.m_impulse = RZero]_vars

\* InitVelocityConstraints was called with warm starting for a rope whose
\* anchors are closer than linearSlop but farther apart than its maximum
\* length: the joint is at its upper limit and has no direction.
C23_Witness ==
    /\ last.op = "InitVelocityConstraints"
    /\ last.arg.doWarmStart
    /\ RLT(RZero, Separation(rope, bodies.A, bodies.B))
    /\ RLE(Separation(rope, bodies.A, bodies.B), SolverConf.linearSlop)
    /\ rope.m_state = e_atUpperLimit
    /\ rope.m_u = RVZero


\* The unit vector from anchor A to anchor B.
RopeDirection(joint, bodyA, bodyB) == GetUnitVector(AnchorDelta(joint, bodyA, bodyB)).u

\* Two bodies that can be accelerated, separated beyond the maximum length
\* along the line through their anchors: each body's center is on that line.
DynamicAndCollinear(joint, bodyA, bodyB) ==
    LET u == RopeDirection(joint, bodyA, bodyB)
    IN  /\ RLT(RZero, bodyA.invMass)
        /\ RLT(RZero, bodyB.invMass)
        /\ RLT(joint.m_maxLength, Separation(joint, bodyA, bodyB))
        /\ RCross(AnchorOffset(joint.m_localAnchorA, bodyA), u) = RZero
        /\ RCross(AnchorOffset(joint.m_localAnchorB, bodyB), u) = RZero

\* Body b has moved to c along the direction d by more than 0 and at most
\* the limit, without turning.
MovedAlong(b, c, d, limit) ==
    LET move == RVSub(c.position.linear, b.position.linear)
        distance == RDot(d, move)
    IN  /\ move = RVMul(d, distance)
        /\ RLT(RZero, distance)
        /\ RLE(distance, limit)
        /\ c.position.angular = b.position.angular

\* What SolvePositionConstraints returns and does when nothing is to be
\* corrected: it returns whether the unclamped excess is below linearSlop,
\* and it leaves the bodies alone when the separation is within maxLength.
ReturnsResolved(joint, bodyA, bodyB, conf, ret, after) ==
    LET length == Separation(joint, bodyA, bodyB)
    IN  /\ ret = RLT(RSub(length, joint.m_maxLength), conf.linearSlop)
        /\ RLE(length, joint.m_maxLength) => after = [A |-> bodyA, B |-> bodyB]

\* The two bodies have been pulled toward each other along the rope, each
\* by at most maxLinearCorrection, and their anchors have not crossed.
PulledTogether(joint, bodyA, bodyB, conf, after) ==
    LET u == RopeDirection(joint, bodyA, bodyB)
    IN  /\ MovedAlong(bodyA, after.A, u, conf.maxLinearCorrection)
        /\ MovedAlong(bodyB, after.B, <<RNeg(u[1]), RNeg(u[2])>>, conf.maxLinearCorrection)
        /\ RLE(RZero, RDot(u, AnchorDelta(joint, after.A, after.B)))

\* C22: SolvePositionConstraints returns true exactly when the unclamped
\* excess (anchor separation minus maxLength) is below linearSlop; it leaves
\* both bodies' positions unchanged when the separation does not exceed
\* maxLength; and when two dynamic bodies are separated beyond maxLength
\* along the line through their anchors it moves body A toward B and body B
\* toward A along that line by at most maxLinearCorrection each, without
\* the bodies crossing and without changing their perpendicular coordinate
\* or angle.
C22_SolvePositionConstraints ==
    [][last'.op = "SolvePositionConstraints" =>
          /\ ReturnsResolved(rope, bodies.A, bodies.B, last'.arg, last'.res.ret, bodies')
          /\ DynamicAndCollinear(rope, bodies.A, bodies.B) =>
                PulledTogether(rope, bodies.A, bodies.B, last'.arg, bodies')]_vars

\* C22 as amended: the same, with the two bodies moved only if the joint's
\* effective mass is not 0, that is if the latest InitVelocityConstraints
\* call found the anchors more than linearSlop apart; otherwise the bodies
\* stay where they are.
C22_SolvePositionConstraintsWithMass ==
    [][last'.op = "SolvePositionConstraints" =>
          /\ ReturnsResolved(rope, bodies.A, bodies.B, last'.arg, last'.res.ret, bodies')
          /\ DynamicAndCollinear(rope, bodies.A, bodies.B) =>
                IF rope.m_mass # RZero
                THEN PulledTogether(rope, bodies.A, bodies.B, last'.arg, bodies')
                ELSE bodies' = bodies]_vars

\* SolvePositionConstraints has moved two dynamic bodies on the line through
\* their anchors and returned false: body A is no longer where it was
\* created and neither body has turned.
C22_Witness ==
    /\ last.op = "SolvePositionConstraints"
    /\ last.res.ret = FALSE
    /\ rope.m_mass # RZero
    /\ RLT(RZero, bodies.A.invMass)
    /\ RLT(RZero, bodies.B.invMass)
    /\ bodies.A.position.linear # RV(-1, 0)
    /\ bodies.A.position.angular = Quarters(0)
    /\ bodies.B.position.angular.radians = RZero


\* The velocity of a body's anchor: v + w x r.
AnchorVelocity(b, r) ==
    <<RSub(b.velocity.linear[1], RMul(b.velocity.angular, r[2])),
      RAdd(b.velocity.linear[2], RMul(b.velocity.angular, r[1]))>>

\* The anchors' relative velocity along the rope direction, plus the bias
\* invDt * C when C = length - maxLength < 0.
BiasedSeparationSpeed(joint, bodyA, bodyB, invDt) ==
    LET C == RSub(joint.m_length, joint.m_maxLength)
        speed == RDot(joint.m_u, RVSub(AnchorVelocity(bodyB, joint.m_rB),
                                       AnchorVelocity(bodyA, joint.m_rA)))
    IN  IF RLT(C, RZero) THEN RAdd(speed, RMul(invDt, C)) ELSE speed

\* The linear velocity of body b has changed by a multiple k of the
\* direction d with k >= 0.
PushedAlong(b, c, d) ==
    LET change == VelocityChange(b, c).linear
        k == RDot(d, change)
    IN  change = RVMul(d, k) /\ RLE(RZero, k)

\* Body A has been pulled along +u and body B along -u.
PulledTowardEachOther(joint, before, after) ==
    /\ PushedAlong(before.A, after.A, joint.m_u)
    /\ PushedAlong(before.B, after.B, <<RNeg(joint.m_u[1]), RNeg(joint.m_u[2])>>)

\* With an accumulated impulse of 0 and a biased separation speed <= 0,
\* SolveVelocityConstraints changes neither the bodies nor the joint.
IdleUnlessSeparating(joint, before, invDt, jointAfter, after) ==
    (joint.m_impulse = RZero
        /\ RLE(BiasedSeparationSpeed(joint, before.A, before.B, invDt), RZero))
    => (after = before /\ jointAfter = joint)

\* C27: a rope can only pull.  With an accumulated impulse of 0,
\* SolveVelocityConstraints leaves both bodies' velocities and the
\* accumulated impulse unchanged whenever the anchors' relative velocity
\* along u, plus the bias invDt * C added only when C < 0, is <= 0; and
\* whenever it changes velocities, the impulse on body B is along -u and the
\* impulse on body A is along +u.
C27_RopeOnlyPulls ==
    [][last'.op = "SolveVelocityConstraints" =>
          /\ IdleUnlessSeparating(rope, bodies, last'.arg.invTime, rope', bodies')
          /\ bodies' # bodies => PulledTowardEachOther(rope, bodies, bodies')]_vars

\* C27 as amended: the direction of the impulse is claimed for a call that
\* starts from an accumulated impulse of 0 only; a call that starts from a
\* negative accumulated impulse may take a part of it back.
C27_RopeOnlyPullsFromRest ==
    [][last'.op = "SolveVelocityConstraints" =>
          /\ IdleUnlessSeparating(rope, bodies, last'.arg.invTime, rope', bodies')
          /\ (rope.m_impulse = RZero /\ bodies' # bodies) =>
                PulledTowardEachOther(rope, bodies, bodies')
          /\ RLE(rope'.m_impulse, RZero)]_vars

\* SolveVelocityConstraints was called, with no impulse accumulated, for a
\* rope shorter than its maximum length whose anchors approach each other:
\* it returned 0 and no impulse is accumulated.
C27_Witness ==
    /\ last.op = "SolveVelocityConstraints"
    /\ last.res.ret = RZero
    /\ rope.m_impulse = RZero
    /\ rope.m_mass # RZero
    /\ RLT(rope.m_length, rope.m_maxLength)
    /\ RLT(RDot(rope.m_u, RVSub(AnchorVelocity(bodies.B, rope.m_rB),
                                AnchorVelocity(bodies.A, rope.m_rA))), RZero)


\* The impulse that accounts for the two changes a and b of the bodies'
\* linear velocity or position: b / invMassB, or -a / invMassA.
ImpulseOf(invMassA, invMassB, a, b) ==
    IF invMassB # RZero THEN RVMul(b, RDiv(ROne, invMassB))
    ELSE IF invMassA # RZero THEN RVMul(a, RNeg(RDiv(ROne, invMassA)))
    ELSE RVZero

\* The changes are -invMassA * P and +invMassB * P for the same P.
EqualAndOpposite(invMassA, invMassB, a, b) ==
    LET P == ImpulseOf(invMassA, invMassB, a, b)
    IN  /\ a = RVMul(P, RNeg(invMassA))
        /\ b = RVMul(P, invMassB)

\* The sum over the two bodies of mass times the vector x, for bodies of
\* positive mass.
MassWeightedSum(bs, x(_)) ==
    RVAdd(RVMul(x(bs.A), RDiv(ROne, bs.A.invMass)), RVMul(x(bs.B), RDiv(ROne, bs.B.invMass)))

LinearVelocityOf(b) == b.velocity.linear

LinearPositionOf(b) == b.position.linear

RopeOps == {"InitVelocityConstraints", "SolveVelocityConstraints", "SolvePositionConstraints"}

\* C30: every impulse a rope joint applies is equal and opposite on its two
\* bodies.  In InitVelocityConstraints, SolveVelocityConstraints and
\* SolvePositionConstraints the change of body A's linear velocity, or
\* position, is -invMassA * P and that of body B's is +invMassB * P for the
\* same P; so for two bodies of positive mass the sum of mass times linear
\* velocity, and of mass times linear position, is the same after the call
\* as before.
C30_EqualAndOpposite ==
    [][last'.op \in RopeOps =>
          /\ EqualAndOpposite(bodies.A.invMass, bodies.B.invMass,
                 RVSub(bodies'.A.velocity.linear, bodies.A.velocity.linear),
                 RVSub(bodies'.B.velocity.linear, bodies.B.velocity.linear))
          /\ EqualAndOpposite(bodies.A.invMass, bodies.B.invMass,
                 RVSub(bodies'.A.position.linear, bodies.A.position.linear),
                 RVSub(bodies'.B.position.linear, bodies.B.position.linear))
          /\ (bodies.A.invMass # RZero /\ bodies.B.invMass # RZero) =>
                /\ MassWeightedSum(bodies', LinearVelocityOf)
                       = MassWeightedSum(bodies, LinearVelocityOf)
                /\ MassWeightedSum(bodies', LinearPositionOf)
                       = MassWeightedSum(bodies, LinearPositionOf)]_vars

\* SolvePositionConstraints has pulled a light body A and a heavy body B
\* toward each other: it returned false, and A is no longer where it was
\* created.
C30_Witness ==
    /\ last.op = "SolvePositionConstraints"
    /\ last.res.ret = FALSE
    /\ rope.m_mass # RZero
    /\ bodies.A.invMass = ROne
    /\ bodies.B.invMass = Rat(1, 2)
    /\ bodies.A.position.linear # RV(-1, 0)


-----------------------------------------------------------------------------
(* The chain shape (src/unnamed/part_001).  Vertices are points with       *)
(* integer coordinates, counted in units of b2_linearSlop.  The vertex     *)
(* array is a sequence, so the vertex the code calls m_vertices[i] is      *)
(* m_vertices[i + 1] here.                                                 *)

\* The most vertices a CreateLoop or CreateChain call is given.
MaxVertices == 4

b2_linearSlop == 1

b2Square(a) == a * a

b2DistanceSquared(a, b) == GetMagnitudeSquared(VSub(a, b))

\* The loop of assertions of CreateLoop and CreateChain: each vertex is more
\* than b2_linearSlop from the one before it.
VerticesFarApart(vertices) ==
    \A i \in 2 .. Len(vertices) :
        b2DistanceSquared(vertices[i - 1], vertices[i]) > b2Square(b2_linearSlop)

\* Whether the assertions of CreateLoop hold.
CreateLoopAsserts(c, vertices) ==
    /\ c.m_vertices = <<>> /\ c.m_count = 0
    /\ Len(vertices) >= 3
    /\ VerticesFarApart(vertices)

\* Whether the assertions of CreateChain hold.
CreateChainAsserts(c, vertices) ==
    /\ c.m_vertices = <<>> /\ c.m_count = 0
    /\ Len(vertices) >= 2
    /\ VerticesFarApart(vertices)

\* b2ChainShape::Clear
Clear(c) == [c EXCEPT !.m_vertices = <<>>, !.m_count = 0]

\* b2ChainShape::CreateLoop with a previous vertex that is the last stored
\* vertex.
CreateLoop_PrevIsLast(c, vertices) ==
    LET count == Len(vertices)
        stored == Append(vertices, vertices[1])
    IN  [c EXCEPT !.m_count = count + 1,
                  !.m_vertices = stored,
                  !.m_prevVertex = stored[count + 1],
                  !.m_nextVertex = stored[2],
                  !.m_hasPrevVertex = TRUE,
                  !.m_hasNextVertex = TRUE]

\* b2ChainShape::CreateLoop with assertions compiled out.
CreateLoop(c, vertices) ==
    LET count == Len(vertices)
        stored == Append(vertices, vertices[1])
    IN  [c EXCEPT !.m_count = count + 1,
                  !.m_vertices = stored,
                  !.m_prevVertex = stored[(count + 1) - 2 + 1],
                  !.m_nextVertex = stored[1 + 1],
                  !.m_hasPrevVertex = TRUE,
                  !.m_hasNextVertex = TRUE]

\* b2ChainShape::CreateChain with assertions compiled out.
CreateChain(c, vertices) ==
    [c EXCEPT !.m_count = Len(vertices),
              !.m_vertices = vertices,
              !.m_hasPrevVertex = FALSE,
              !.m_hasNextVertex = FALSE,
              !.m_prevVertex = Vec2_zero,
              !.m_nextVertex = Vec2_zero]

\* b2ChainShape::SetPrevVertex
SetPrevVertex(c, prevVertex) == [c EXCEPT !.m_prevVertex = prevVertex, !.m_hasPrevVertex = TRUE]

\* b2ChainShape::SetNextVertex
SetNextVertex(c, nextVertex) == [c EXCEPT !.m_nextVertex = nextVertex, !.m_hasNextVertex = TRUE]

\* b2ChainShape::GetChildCount, for a chain with vertices.
GetChildCount(c) == c.m_count - 1

\* b2EdgeShape::Set: the edge from v1 to v2, without neighbor vertices.
EdgeSet(v1, v2) ==
    [m_vertex1 |-> v1, m_vertex2 |-> v2,
     m_vertex0 |-> Vec2_zero, m_vertex3 |-> Vec2_zero,
     m_hasVertex0 |-> FALSE, m_hasVertex3 |-> FALSE]

\* b2EdgeShape::SetVertex0
SetVertex0(edge, v) == [edge EXCEPT !.m_vertex0 = v, !.m_hasVertex0 = TRUE]

\* b2EdgeShape::SetVertex3
SetVertex3(edge, v) == [edge EXCEPT !.m_vertex3 = v, !.m_hasVertex3 = TRUE]

\* b2ChainShape::GetChildEdge, for an index below the child count: the edge
\* it fills in.
GetChildEdge(c, index) ==
    LET e1 == EdgeSet(c.m_vertices[index + 0 + 1], c.m_vertices[index + 1 + 1])
        e2 == IF index > 0 THEN SetVertex0(e1, c.m_vertices[index - 1 + 1])
              ELSE IF c.m_hasPrevVertex THEN SetVertex0(e1, c.m_prevVertex)
              ELSE e1
    IN  IF index < c.m_count - 2 THEN SetVertex3(e2, c.m_vertices[index + 2 + 1])
        ELSE IF c.m_hasNextVertex THEN SetVertex3(e2, c.m_nextVertex)
        ELSE e2

(* What a construction call can do: an assert whose condition is false     *)
(* aborts the process when assertions are compiled in and is skipped       *)
(* otherwise.  An aborted process is the call "abort" with no chain.       *)

CreateLoopOutcomes(c, vertices) ==
    {[c |-> CreateLoop(c, vertices), aborted |-> FALSE]}
        \cup IF CreateLoopAsserts(c, vertices) THEN {} ELSE {[c |-> c, aborted |-> TRUE]}

CreateChainOutcomes(c, vertices) ==
    {[c |-> CreateChain(c, vertices), aborted |-> FALSE]}
        \cup IF CreateChainAsserts(c, vertices) THEN {} ELSE {[c |-> c, aborted |-> TRUE]}

-----------------------------------------------------------------------------
(* The chain scenario: a chain shape is constructed empty; CreateLoop or   *)
(* CreateChain gives it vertices, the previous and next vertex are set,    *)
(* its children are asked for, and Clear empties it again.  Vertices are   *)
(* given to an empty chain only.                                           *)

Points == {<<0, 0>>, <<2, 0>>, <<0, 1>>}

RECURSIVE SeqsUpTo(_, _)
SeqsUpTo(S, n) ==
    IF n = 0 THEN {<<>>}
    ELSE LET shorter == SeqsUpTo(S, n - 1)
         IN  shorter \cup {Append(s, x) : s \in {q \in shorter : Len(q) = n - 1}, x \in S}

\* The vertex arrays CreateLoop and CreateChain are called with: two or
\* more points, some of them too close to each other.
VertexArrays == {v \in SeqsUpTo(Points, MaxVertices) : Len(v) >= 2}

InitChain ==
    /\ chain = NoChain
    /\ last = Call("b2ChainShape", 0, 0)
    /\ BodyIdle
    /\ AdjIdle
    /\ LegacyIdle
    /\ WorldIdle

ChainFrame == UNCHANGED <<bodyVars, adjVars, legacyVars, worldVars>>

Running == last.op # "abort"

\* A construction call with outcome r.
Constructed(op, vertices, r) ==
    /\ chain' = r.c
    /\ last' = IF r.aborted THEN Call("abort", 0, 0) ELSE Call(op, vertices, 0)
    /\ ChainFrame

DoCreateLoop ==
    /\ Running
    /\ chain.m_count = 0
    /\ \E vertices \in VertexArrays :
          \E r \in CreateLoopOutcomes(chain, vertices) : Constructed("CreateLoop", vertices, r)

DoCreateChain ==
    /\ Running
    /\ chain.m_count = 0
    /\ \E vertices \in VertexArrays :
          \E r \in CreateChainOutcomes(chain, vertices) : Constructed("CreateChain", vertices, r)

DoSetPrevVertex ==
    /\ Running
    /\ chain.m_count > 0
    /\ \E v \in Points :
          /\ chain' = SetPrevVertex(chain, v)
          /\ last' = Call("SetPrevVertex", v, 0)
    /\ ChainFrame

DoSetNextVertex ==
    /\ Running
    /\ chain.m_count > 0
    /\ \E v \in Points :
          /\ chain' = SetNextVertex(chain, v)
          /\ last' = Call("SetNextVertex", v, 0)
    /\ ChainFrame

DoGetChildCount ==
    /\ Running
    /\ chain.m_count > 0
    /\ last' = Call("GetChildCount", 0, GetChildCount(chain))
    /\ UNCHANGED chain
    /\ ChainFrame

DoGetChildEdge ==
    /\ Running
    /\ chain.m_count > 0
    /\ \E index \in 0 .. (GetChildCount(chain) - 1) :
          last' = Call("GetChildEdge", index, GetChildEdge(chain, index))
    /\ UNCHANGED chain
    /\ ChainFrame

DoClear ==
    /\ Running
    /\ chain' = Clear(chain)
    /\ last' = Call("Clear", 0, 0)
    /\ ChainFrame

NextChain ==
    \/ DoCreateLoop
    \/ DoCreateChain
    \/ DoSetPrevVertex
    \/ DoSetNextVertex
    \/ DoGetChildCount
    \/ DoGetChildEdge
    \/ DoClear

SpecChain == InitChain /\ [][NextChain]_vars


-----------------------------------------------------------------------------
(* Claims about the chain shape.                                           *)

\* The child edges of chain c, in order.
ChildEdges(c) == [i \in 1 .. GetChildCount(c) |-> GetChildEdge(c, i - 1)]

\* What CreateLoop from the n vertices v leaves in c: n + 1 stored vertices,
\* the last a copy of the first, n child edges, the previous vertex the
\* penultimate stored vertex and the next vertex the second; child edge i
\* runs from v[i] to v[i + 1] and has both neighbors, the neighbor before
\* the first edge being the previous vertex and the one after the last edge
\* the next vertex.
IsLoopOf(c, v) ==
    LET n == Len(v)
        edges == ChildEdges(c)
    IN  /\ c.m_count = n + 1
        /\ Len(c.m_vertices) = n + 1
        /\ SubSeq(c.m_vertices, 1, n) = v
        /\ c.m_vertices[n + 1] = v[1]
        /\ GetChildCount(c) = n
        /\ c.m_hasPrevVertex /\ c.m_prevVertex = c.m_vertices[n]
        /\ c.m_hasNextVertex /\ c.m_nextVertex = c.m_vertices[2]
        /\ \A i \in 1 .. n :
              /\ edges[i].m_vertex1 = v[i]
              /\ edges[i].m_vertex2 = v[(i % n) + 1]
              /\ edges[i].m_hasVertex0
              /\ edges[i].m_hasVertex3
        /\ edges[1].m_vertex0 = v[n]
        /\ edges[n].m_vertex3 = v[2]

\* What CreateChain from the n vertices v leaves in c: the n vertices, n - 1
\* child edges, child edge i from v[i] to v[i + 1], no neighbor before the
\* first edge and none after the last.
IsOpenChainOf(c, v) ==
    LET n == Len(v)
        edges == ChildEdges(c)
    IN  /\ c.m_count = n
        /\ c.m_vertices = v
        /\ GetChildCount(c) = n - 1
        /\ \A i \in 1 .. (n - 1) :
              /\ edges[i].m_vertex1 = v[i]
              /\ edges[i].m_vertex2 = v[i + 1]
        /\ ~edges[1].m_hasVertex0
        /\ ~edges[n - 1].m_hasVertex3

\* The end neighbors of a chain are defined by CreateLoop, SetPrevVertex and
\* SetNextVertex only, and the one a Set call defines is the vertex it was
\* given.
EndNeighborsAsSet ==
    /\ chain'.m_hasPrevVertex /\ ~chain.m_hasPrevVertex
          => last'.op \in {"CreateLoop", "SetPrevVertex"}
    /\ chain'.m_hasNextVertex /\ ~chain.m_hasNextVertex
          => last'.op \in {"CreateLoop", "SetNextVertex"}
    /\ last'.op = "SetPrevVertex"
          => /\ ChildEdges(chain')[1].m_hasVertex0
             /\ ChildEdges(chain')[1].m_vertex0 = last'.arg
    /\ last'.op = "SetNextVertex"
          => /\ ChildEdges(chain')[GetChildCount(chain')].m_hasVertex3
             /\ ChildEdges(chain')[GetChildCount(chain')].m_vertex3 = last'.arg

\* C24: a chain built by CreateLoop from n >= 3 vertices stores n + 1
\* vertices, the last equal to the first, and has n child edges, its
\* previous vertex the penultimate stored vertex and its next vertex the
\* second; child edge i is the edge (v[i], v[i + 1]) with both neighbors
\* defined.  A chain built by CreateChain from n >= 2 vertices has n - 1
\* child edges, the first without a neighbor before it and the last without
\* one after it, until SetPrevVertex or SetNextVertex is called; the child
\* count and child edges the chain answers with are those.
C24_LoopAndChainChildren ==
    [][/\ last'.op = "CreateLoop" /\ Len(last'.arg) >= 3 => IsLoopOf(chain', last'.arg)
       /\ last'.op = "CreateChain" /\ Len(last'.arg) >= 2 => IsOpenChainOf(chain', last'.arg)
       /\ EndNeighborsAsSet
       /\ last'.op = "GetChildCount" => last'.res = Len(ChildEdges(chain))
       /\ last'.op = "GetChildEdge" => last'.res = ChildEdges(chain)[last'.arg + 1]]_vars

\* C24 witness: the last child edge of a loop of three or more vertices was
\* asked for, and the neighbor after it is the loop's second vertex.
C24_Witness ==
    /\ last.op = "GetChildEdge"
    /\ chain.m_count >= 4
    /\ chain.m_vertices[chain.m_count] = chain.m_vertices[1]
    /\ chain.m_hasPrevVertex /\ chain.m_prevVertex = chain.m_vertices[chain.m_count - 1]
    /\ chain.m_prevVertex # chain.m_vertices[1]
    /\ last.arg = chain.m_count - 2
    /\ last.res.m_vertex2 = chain.m_vertices[1]
    /\ last.res.m_hasVertex3
    /\ last.res.m_vertex3 = chain.m_vertices[2]

\* Each stored vertex of c is more than b2_linearSlop from the one stored
\* before it; in a loop the last stored pair is the closing edge.
StoredVerticesFarApart(c) ==
    \A i \in 2 .. c.m_count :
        b2DistanceSquared(c.m_vertices[i - 1], c.m_vertices[i]) > b2Square(b2_linearSlop)

\* C25: every chain that CreateChain or CreateLoop constructs with its
\* assertions passing has each two consecutive stored vertices, those of the
\* closing edge of a loop included, more than b2_linearSlop apart.
C25_ConsecutiveVerticesFarApart ==
    [][/\ last'.op = "CreateLoop" /\ CreateLoopAsserts(chain, last'.arg)
             => StoredVerticesFarApart(chain')
       /\ last'.op = "CreateChain" /\ CreateChainAsserts(chain, last'.arg)
             => StoredVerticesFarApart(chain')]_vars


-----------------------------------------------------------------------------
(* UnitVec: a direction, a pair of fractions of magnitude 1, or the zero   *)
(* value.  The class is declared in playrho/d2/UnitVec.hpp; its            *)
(* operations are as the tests of src/UnitTests/UnitVec.cpp use them.      *)

\* The most times a perpendicular operation is applied in a row.
MaxApplications == 4

GetZero == <<RZero, RZero>>

GetRight == <<ROne, RZero>>

GetUp == <<RZero, ROne>>

GetLeft == <<RNeg(ROne), RZero>>

GetDown == <<RZero, RNeg(ROne)>>

\* abs of a fraction
RAbs(a) == IF RLT(a, RZero) THEN RNeg(a) ELSE a

\* UnitVec::GetRevPerpendicular: (-y, x)
UnitVec_GetRevPerpendicular(u) == <<RNeg(u[2]), u[1]>>

\* UnitVec::GetFwdPerpendicular: (y, -x)
UnitVec_GetFwdPerpendicular(u) == <<u[2], RNeg(u[1])>>

\* The product of u and the complex conjugate of amount.
UnitVec_Rotate_Back(u, amount) ==
    <<RAdd(RMul(u[1], amount[1]), RMul(u[2], amount[2])),
      RSub(RMul(u[2], amount[1]), RMul(u[1], amount[2]))>>

\* UnitVec::Rotate, the member function: the product of u and amount as
\* complex numbers.
UnitVec_Rotate(u, amount) ==
    <<RSub(RMul(u[1], amount[1]), RMul(u[2], amount[2])),
      RAdd(RMul(u[2], amount[1]), RMul(u[1], amount[2]))>>

\* Rotate(UnitVec, UnitVec), the free function.
RotateUnitVec(vector, angle) == UnitVec_Rotate(vector, angle)

\* UnitVec::Absolute: (abs(x), abs(y))
UnitVec_Absolute(u) == <<RAbs(u[1]), RAbs(u[2])>>

-----------------------------------------------------------------------------
(* The direction scenario: a UnitVec is taken, and the operations are      *)
(* applied, the perpendicular ones to the value at hand and up to          *)
(* MaxApplications times in a row.                                         *)

Cardinals == {GetRight, GetUp, GetLeft, GetDown}

\* The directions with coordinates 3/5 and 4/5.
Oblique ==
    {<<Rat(sx * x, 5), Rat(sy * (7 - x), 5)>> : sx \in {-1, 1}, sy \in {-1, 1}, x \in {3, 4}}

UnitVecs == Cardinals \cup {GetZero} \cup Oblique

\* The value at hand, the value a run of one perpendicular operation began
\* with and the length of the run.
Applied(ret, origin, applied) == [ret |-> ret, origin |-> origin, applied |-> applied]

InitUnitVec ==
    /\ \E u \in UnitVecs : last = Call("UnitVec", u, Applied(u, u, 0))
    /\ BodyIdle
    /\ AdjIdle
    /\ LegacyIdle
    /\ WorldIdle
    /\ ChainIdle

UnitVecFrame == UNCHANGED <<bodyVars, adjVars, legacyVars, worldVars, chainVars>>

\* A perpendicular operation on the value at hand.
Perpendicular(op, ret) ==
    /\ last.op = op => last.res.applied < MaxApplications
    /\ last' = Call(op, last.res.ret,
                    IF last.op = op
                    THEN Applied(ret, last.res.origin, last.res.applied + 1)
                    ELSE Applied(ret, last.res.ret, 1))
    /\ UnitVecFrame

DoGetRevPerpendicular ==
    \E ret \in {UnitVec_GetRevPerpendicular(last.res.ret)} : Perpendicular("GetRevPerpendicular", ret)

DoGetFwdPerpendicular ==
    \E ret \in {UnitVec_GetFwdPerpendicular(last.res.ret)} : Perpendicular("GetFwdPerpendicular", ret)

DoRotateMethod ==
    /\ \E a \in UnitVecs, b \in UnitVecs :
          \E ret \in {UnitVec_Rotate(a, b)} :
              last' = Call("RotateMethod", <<a, b>>, Applied(ret, ret, 0))
    /\ UnitVecFrame

DoRotateFunction ==
    /\ \E a \in UnitVecs, b \in UnitVecs :
          \E ret \in {RotateUnitVec(a, b)} :
              last' = Call("RotateFunction", <<a, b>>, Applied(ret, ret, 0))
    /\ UnitVecFrame

DoAbsolute ==
    /\ \E u \in UnitVecs :
          \E ret \in {UnitVec_Absolute(u)} :
              last' = Call("Absolute", u, Applied(ret, ret, 0))
    /\ UnitVecFrame

NextUnitVec ==
    \/ DoGetRevPerpendicular
    \/ DoGetFwdPerpendicular
    \/ DoRotateMethod
    \/ DoRotateFunction
    \/ DoAbsolute

SpecUnitVec == InitUnitVec /\ [][NextUnitVec]_vars

\* The cardinal direction a counter-clockwise quarter turn away.
QuarterTurn(u) ==
    CASE u = GetRight -> GetUp
      [] u = GetUp    -> GetLeft
      [] u = GetLeft  -> GetDown
      [] u = GetDown  -> GetRight

\* The opposite cardinal direction.
HalfTurn(u) ==
    CASE u = GetRight -> GetLeft
      [] u = GetUp    -> GetDown
      [] u = GetLeft  -> GetRight
      [] u = GetDown  -> GetUp

\* The operation whose result last records was applied to a cardinal
\* direction.
OnCardinal(op) ==
    /\ last.op = op
    /\ IF op \in {"RotateMethod", "RotateFunction"} THEN last.arg[1] \in Cardinals
       ELSE last.arg \in Cardinals

\* Rotate(a, b) of a cardinal direction a: a for b = Right, a turned a
\* quarter counter-clockwise for b = Up, the opposite of a for b = Left.
RotatesCardinal(op) ==
    OnCardinal(op) =>
        /\ last.arg[2] = GetRight => last.res.ret = last.arg[1]
        /\ last.arg[2] = GetUp => last.res.ret = QuarterTurn(last.arg[1])
        /\ last.arg[2] = GetLeft => last.res.ret = HalfTurn(last.arg[1])

\* C26: on the four cardinal directions GetRevPerpendicular is the
\* counter-clockwise quarter turn Right -> Up -> Left -> Down -> Right,
\* GetFwdPerpendicular is its inverse, and four applications of either are
\* the identity; Rotate(a, Right) is a, Rotate(a, Up) is a turned a quarter
\* counter-clockwise and Rotate(a, Left) is the opposite of a, for the member
\* function and the free function alike; Absolute maps Down to Up and Left
\* to Right and leaves Up, Right and the zero value as they are.
C26_CardinalDirections ==
    /\ OnCardinal("GetRevPerpendicular") => last.res.ret = QuarterTurn(last.arg)
    /\ OnCardinal("GetFwdPerpendicular") => QuarterTurn(last.res.ret) = last.arg
    /\ (/\ last.op \in {"GetRevPerpendicular", "GetFwdPerpendicular"}
        /\ last.res.origin \in Cardinals
        /\ last.res.applied = 4) => last.res.ret = last.res.origin
    /\ RotatesCardinal("RotateMethod")
    /\ RotatesCardinal("RotateFunction")
    /\ last.op = "RotateFunction" => last.res.ret = UnitVec_Rotate(last.arg[1], last.arg[2])
    /\ last.op = "Absolute" =>
          /\ last.arg = GetDown => last.res.ret = GetUp
          /\ last.arg = GetLeft => last.res.ret = GetRight
          /\ last.arg \in {GetUp, GetRight, GetZero} => last.res.ret = last.arg

\* C26 witness: GetRevPerpendicular has been applied to Right four times
\* and the value is Right again.
C26_Witness ==
    /\ last.op = "GetRevPerpendicular"
    /\ last.res.origin = GetRight
    /\ last.res.applied = 4
    /\ last.res.ret = GetRight
    /\ last.arg = GetDown

=============================================================================
